---- MODULE Spec2Model ----
(***************************************************************************)
(* Model of src/code/data_provider.py: the batch iterator DataProvider,    *)
(* its specialisation ASSISTDataProvider, the k-fold splitter and the      *)
(* sequence truncator.                                                     *)
(*                                                                         *)
(* Arrays are sequences (1-based); the row indices the code computes are   *)
(* kept 0-based as in the source, so row i of an array a is a[i + 1].      *)
(* A provider object is a record; a method is an operator from the object  *)
(* (and the values drawn from the random generator) to the object after    *)
(* the call.                                                               *)
(***************************************************************************)
EXTENDS Integers, Sequences, FiniteSets, TLC

(***************************************************************************)
(* Bounds of the model.                                                    *)
(***************************************************************************)
\* largest number of rows (students) of a provider's dataset
MaxRows == 2
\* largest batch_size passed to the constructor or assigned later
MaxBatchSize == 2
\* largest positive max_num_batches passed or assigned
MaxCap == 2
\* max_num_ans of the loaded dataset (answers per student, padded)
DataMaxNumAns == 2
\* max_prob_set_id of the loaded dataset
DataMaxProbSetId == 1
\* largest number of students handed to truncate_sequences
MaxTruncStudents == 2
\* largest truncation threshold passed by a caller
MaxThreshold == 2
\* largest number of rows of a provider that is split into folds
MaxFoldRows == 3
\* largest number of folds asked for
MaxK == 2
\* largest number of rows of a provider train_validation_split is called on
MaxSplitRows == 5
\* largest number of rows of a dataset that is compressed
MaxCompressedRows == 1
\* number of matrices randn can draw
MaxMatrixDraws == 2
\* largest number of batches the provider has served in its current epoch
\* when the fold splitter is called on it
MaxServed == 1
\* largest number of rows handed to _truncate_inputs_or_ids beyond a full
\* block of rows
MaxTailRows == 2

(***************************************************************************)
(* Constants of the program.                                               *)
(***************************************************************************)
\* rows _truncate_inputs_or_ids densifies at a time
TruncateBlockRows == 1000
\* the k train_validation_split passes to _get_k_folds
SplitFolds == 5
\* compress_dim of make_compression_matrix
CompressDim == 100

(***************************************************************************)
(* numpy / Python helpers, as the code uses them.                          *)
(***************************************************************************)
Min(a, b) == IF a <= b THEN a ELSE b

\* range(start, stop, step) as a sequence
PyRange(start, stop, step) ==
    LET cnt == IF stop <= start THEN 0 ELSE ((stop - start) + step - 1) \div step
    IN  [k \in 1..cnt |-> start + (k - 1) * step]

\* a[lo:hi] for 0 <= lo: Python clips both ends to len(a)
Slice(a, lo, hi) ==
    LET l == Min(lo, Len(a))
        h == Min(hi, Len(a))
    IN  IF h <= l THEN << >> ELSE SubSeq(a, l + 1, h)

\* a[idx] for an index array idx (0-based indices, all within range)
Take(a, idx) == [k \in 1..Len(idx) |-> a[idx[k] + 1]]

\* np.arange(n)
arange(n) == [k \in 1..n |-> k - 1]

\* the orderings of a finite set of numbers, as sequences
RECURSIVE Orderings(_)
Orderings(S) ==
    IF S = {} THEN {<< >>}
    ELSE UNION {{<<x>> \o p : p \in Orderings(S \ {x})} : x \in S}

\* every value rng.permutation(n) can return: the orderings of 0..n-1
Permutations0(n) == Orderings(0..(n - 1))

\* np.argsort(a): position k holds the (0-based) index of the k-th smallest
\* element; ties keep their order
argsort(a) ==
    [k \in 1..Len(a) |->
        CHOOSE i \in 0..(Len(a) - 1) :
            Cardinality({j \in 0..(Len(a) - 1) :
                            \/ a[j + 1] < a[i + 1]
                            \/ (a[j + 1] = a[i + 1] /\ j < i)}) = k - 1]

\* the concatenation of the rows of a list of lists
RECURSIVE Flatten(_)
Flatten(rows) ==
    IF rows = << >> THEN << >> ELSE Head(rows) \o Flatten(Tail(rows))

\* a flat array reshaped to rows of `width` entries (C order)
Rows(flat, width) ==
    [r \in 1..(Len(flat) \div width) |->
        SubSeq(flat, (r - 1) * width + 1, r * width)]

\* np.array(v, dtype=np.int32) on integers: two's complement wrap to 32 bits
AsInt32(v) ==
    IF v > 2147483647 THEN (v - 2147483647) - 2147483647 - 2
    ELSE IF v < -2147483647 - 1 THEN (v + 2147483647) + 2147483647 + 2
    ELSE v

\* np.array(v, dtype=np.float32) on integers: exact up to 2^24, beyond that
\* rounded to the float32 grid (multiples of 2, truncation shown)
AsFloat32(v) ==
    IF v >= -16777216 /\ v <= 16777216 THEN v
    ELSE IF v > 0 THEN 2 * (v \div 2) ELSE -(2 * ((-v) \div 2))

(***************************************************************************)
(* The dataset on disk that load_data returns.  Student r has              *)
(* AnsCount(r) labelled answers; answer position a of student r is encoded *)
(* one-hot in the input block and in the identifier block, and padded with *)
(* zeros up to max_num_ans positions.                                      *)
(***************************************************************************)
Loaded_max_num_ans == DataMaxNumAns
Loaded_max_prob_set_id == DataMaxProbSetId
\* use_plus_minus_feats = False: encoding_dim = 2 * max_prob_set_id + 1
Loaded_encoding_dim == 2 * Loaded_max_prob_set_id + 1

AnsCount(r) == 1 + (r % Loaded_max_num_ans)

\* the flattened [max_num_ans, dim] block of student r: one-hot rows for the
\* first cnt answer positions, zero rows (padding) after them
OneHotBlock(r, cnt, dim) ==
    [c \in 1..(Loaded_max_num_ans * dim) |->
        LET a == (c - 1) \div dim
            d == (c - 1) % dim
        IN  IF a < cnt /\ d = (r + a) % dim THEN 1 ELSE 0]

\* the label list of student r with cnt labelled answers
Labels(r, cnt) == [a \in 1..cnt |-> (r + a) % 2]

LoadedInputs(n) ==
    [k \in 1..n |-> OneHotBlock(k - 1, AnsCount(k - 1), Loaded_encoding_dim)]
LoadedTargetIds(n) ==
    [k \in 1..n |-> OneHotBlock(k - 1, AnsCount(k - 1), Loaded_max_prob_set_id)]
LoadedTargets(n) == [k \in 1..n |-> Labels(k - 1, AnsCount(k - 1))]

(***************************************************************************)
(* State.                                                                  *)
(***************************************************************************)
VARIABLES
    pc,     \* "new": no provider yet; "ready": constructed; "raised": the
            \* constructor raised and no object exists
    dp,     \* the provider object (its attributes)
    ret,    \* the outcome of the last call: what it returned or raised, with
            \* the locals of next() the caller can observe; after_stop: the
            \* call before it was a next() that raised StopIteration; arg:
            \* the arguments of the call, for reset() the permutation its
            \* new epoch drew;
            \* disordered: reset() found the rows out of their original order;
            \* after_assign: the call before it was an accepted assignment
            \* to batch_size or max_num_batches with the cursor past 0
    epoch,  \* the batches next() has returned since the cursor was last 0,
            \* and whether a setter or shuffle() was called since then
    tr,     \* a call of truncate_sequences: its arguments, then its result
    gen,    \* the generator object _get_k_folds(k, threshold) returned: its
            \* locals (k and threshold start as the arguments), the
            \* threshold it was called with, the number i of folds it has
            \* yielded and the index pairs kf.split has produced for them
    pair,   \* what the generator yielded last: the two providers, with the
            \* bundles they were built from and whether the loop body
            \* called truncate_sequences
    disk,   \* the compression-matrix file of each year's train path
    twin    \* a second provider, constructed with the arguments of the
            \* first and driven by the same calls: the object, the outcome
            \* of its last call, how many more values its generator has
            \* drawn than the first one's (0: the two generators are in
            \* the same state), and whether the constructors took their
            \* compression matrices from np.random

vars == <<pc, dp, ret, epoch, tr, gen, pair, disk, twin>>

\* an object before __init__ has assigned anything
Blank ==
    [cls |-> "none", which_set |-> "none",
     inputs |-> << >>, targets |-> << >>, target_ids |-> << >>,
     batch_size |-> 0, max_num_batches |-> 0, num_batches |-> 0,
     shuffle_order |-> FALSE, current_order |-> << >>, curr_batch |-> 0,
     max_num_ans |-> 0, max_prob_set_id |-> 0, encoding_dim |-> 0]

NoRet ==
    [op |-> "none", exc |-> "none", arg |-> 0, after_stop |-> FALSE,
     disordered |-> FALSE, after_assign |-> FALSE,
     lo |-> 0, hi |-> 0,
     inputs_batch |-> << >>, targets_batch |-> << >>, target_ids_batch |-> << >>,
     batch_inputs |-> << >>, batch_targets |-> << >>, batch_target_ids |-> << >>]

NewEpoch == [clean |-> TRUE, ended |-> FALSE, served |-> << >>]

\* what truncate_sequences returns (or raises); inputs_src and
\* target_ids_src name, for every returned row, the student and the chunk it
\* was cut from
NoTruncated ==
    [exc |-> "none", threshold |-> 0,
     inputs |-> << >>, target_ids |-> << >>, targets |-> << >>,
     inputs_src |-> << >>, target_ids_src |-> << >>]

\* no generator; threshold 0 stands for None (`if threshold:` treats them
\* alike)
NoGen ==
    [state |-> "none", exc |-> "none", k |-> 0, threshold |-> 0,
     threshold_arg |-> 0, i |-> 0,
     inputs |-> << >>, targets |-> << >>, target_ids |-> << >>,
     splits |-> << >>]

\* the dict handed to a fold provider as `data`
NoData ==
    [inputs |-> << >>, targets |-> << >>, target_ids |-> << >>,
     max_num_ans |-> 0, max_prob_set_id |-> 0, encoding_dim |-> 0]

NoPair ==
    [train_data |-> NoData, val_data |-> NoData, truncated |-> FALSE,
     train_dp |-> Blank, val_dp |-> Blank]

\* the years whose datasets the constructions load: every construction of
\* the model passes which_year='09'
Years == {"09"}

\* a file that does not exist
NoFile == [exists |-> FALSE, compress_matrix |-> << >>]

\* no compression matrix has been saved
NoFiles == [y \in Years |-> NoFile]

\* no call of truncate_sequences
\* no second provider
NoTwin == [dp |-> Blank, ret |-> NoRet, ahead |-> 0, ambient |-> FALSE]

NoTruncation ==
    [state |-> "idle", threshold |-> 0,
     inputs |-> << >>, target_ids |-> << >>, targets |-> << >>,
     out |-> NoTruncated]

(***************************************************************************)
(* DataProvider.                                                           *)
(***************************************************************************)
num_rows(self) == Len(self.inputs)

\* a batch count that rounds the last, partial batch up
update_num_batches_rounding_up(self) ==
    LET possible_num_batches ==
            (num_rows(self) + self.batch_size - 1) \div self.batch_size
    IN  [self EXCEPT !.num_batches =
            IF self.max_num_batches = -1
            THEN possible_num_batches
            ELSE Min(self.max_num_batches, possible_num_batches)]

\* DataProvider._update_num_batches
update_num_batches(self) ==
    LET possible_num_batches == num_rows(self) \div self.batch_size
    IN  [self EXCEPT !.num_batches =
            IF self.max_num_batches = -1
            THEN possible_num_batches
            ELSE Min(self.max_num_batches, possible_num_batches)]

\* DataProvider.shuffle, perm = self.rng.permutation(self.inputs.shape[0])
DataProvider_shuffle(self, perm) ==
    [self EXCEPT !.current_order = Take(self.current_order, perm),
                 !.inputs = Take(self.inputs, perm),
                 !.targets = Take(self.targets, perm)]

\* a shuffle that leaves target_ids in place (the inherited method)
ASSISTDataProvider_shuffle_without_ids(self, perm) ==
    [self EXCEPT !.current_order = Take(self.current_order, perm),
                 !.inputs = Take(self.inputs, perm),
                 !.targets = Take(self.targets, perm)]

\* ASSISTDataProvider.shuffle
ASSISTDataProvider_shuffle(self, perm) ==
    [self EXCEPT !.current_order = Take(self.current_order, perm),
                 !.inputs = Take(self.inputs, perm),
                 !.targets = Take(self.targets, perm),
                 !.target_ids = Take(self.target_ids, perm)]

\* self.shuffle(): the method of the object's class
shuffle(self, perm) ==
    IF self.cls = "ASSISTDataProvider"
    THEN ASSISTDataProvider_shuffle(self, perm)
    ELSE DataProvider_shuffle(self, perm)

\* new_epoch that leaves the batch cursor where it is
new_epoch_keeps_cursor(self, perm) ==
    IF self.shuffle_order THEN shuffle(self, perm) ELSE self

\* new_epoch that shuffles whatever shuffle_order says
new_epoch_always_shuffles(self, perm) ==
    shuffle([self EXCEPT !.curr_batch = 0], perm)

\* DataProvider.new_epoch
new_epoch(self, perm) ==
    LET s == [self EXCEPT !.curr_batch = 0]
    IN  IF s.shuffle_order THEN shuffle(s, perm) ELSE s

\* DataProvider.reset
DataProvider_reset(self, perm) ==
    LET inv_perm == argsort(self.current_order)
        s == [self EXCEPT !.current_order = Take(self.current_order, inv_perm),
                          !.inputs = Take(self.inputs, inv_perm),
                          !.targets = Take(self.targets, inv_perm)]
    IN  new_epoch(s, perm)

\* a reset that restores the rows and leaves _current_order as it was
ASSISTDataProvider_reset_composing(self, perm) ==
    LET inv_perm == argsort(self.current_order)
        s == [self EXCEPT !.inputs = Take(self.inputs, inv_perm),
                          !.targets = Take(self.targets, inv_perm),
                          !.target_ids = Take(self.target_ids, inv_perm)]
    IN  new_epoch(s, perm)

\* ASSISTDataProvider.reset
ASSISTDataProvider_reset(self, perm) ==
    LET inv_perm == argsort(self.current_order)
        s == [self EXCEPT !.current_order = Take(self.current_order, inv_perm),
                          !.inputs = Take(self.inputs, inv_perm),
                          !.targets = Take(self.targets, inv_perm),
                          !.target_ids = Take(self.target_ids, inv_perm)]
    IN  new_epoch(s, perm)

\* a reset that starts a new epoch without restoring the row order
reset_without_restore(self, perm) == new_epoch(self, perm)

reset(self, perm) ==
    IF self.cls = "ASSISTDataProvider"
    THEN ASSISTDataProvider_reset(self, perm)
    ELSE DataProvider_reset(self, perm)

\* the guard of both setters and of __init__ on batch_size
batch_size_invalid(value) == value < 1

\* a guard that rejects 0 only
max_num_batches_invalid_zero_only(value) == value = 0

\* the guard of both setters and of __init__ on max_num_batches
max_num_batches_invalid(value) == value = 0 \/ value < -1

\* a setter that leaves num_batches stale
set_batch_size_stale(self, value) ==
    IF batch_size_invalid(value)
    THEN [exc |-> "ValueError", self |-> self]
    ELSE [exc |-> "none", self |-> [self EXCEPT !.batch_size = value]]

\* DataProvider.batch_size setter: [exc, self]
set_batch_size(self, value) ==
    IF batch_size_invalid(value)
    THEN [exc |-> "ValueError", self |-> self]
    ELSE [exc |-> "none",
          self |-> update_num_batches([self EXCEPT !.batch_size = value])]

\* a setter that also rewinds the batch cursor
set_max_num_batches_rewinding(self, value) ==
    IF max_num_batches_invalid(value)
    THEN [exc |-> "ValueError", self |-> self]
    ELSE [exc |-> "none",
          self |-> update_num_batches([self EXCEPT !.max_num_batches = value,
                                                   !.curr_batch = 0])]

\* DataProvider.max_num_batches setter: [exc, self]
set_max_num_batches(self, value) ==
    IF max_num_batches_invalid(value)
    THEN [exc |-> "ValueError", self |-> self]
    ELSE [exc |-> "none",
          self |-> update_num_batches([self EXCEPT !.max_num_batches = value])]

\* DataProvider.__init__ on the object `self`: [exc, self]
DataProvider_init(self, inputs, targets, batch_size, max_num_batches, shuffle_order, perm) ==
    LET s1 == [self EXCEPT !.inputs = inputs, !.targets = targets]
    IN  IF batch_size_invalid(batch_size)
        THEN [exc |-> "ValueError", self |-> s1]
        ELSE IF max_num_batches_invalid(max_num_batches)
        THEN [exc |-> "ValueError",
              self |-> [s1 EXCEPT !.batch_size = batch_size]]
        ELSE LET s2 == update_num_batches(
                          [s1 EXCEPT !.batch_size = batch_size,
                                     !.max_num_batches = max_num_batches])
                 s3 == [s2 EXCEPT !.shuffle_order = shuffle_order,
                                  !.current_order = arange(Len(inputs))]
             IN  [exc |-> "none", self |-> new_epoch(s3, perm)]

\* a next() that does not advance the batch cursor
DataProvider_next_stuck(self, perm) ==
    IF self.curr_batch + 1 > self.num_batches
    THEN [self |-> new_epoch(self, perm),
          out |-> [NoRet EXCEPT !.exc = "StopIteration"]]
    ELSE LET lo == self.curr_batch * self.batch_size
             hi == (self.curr_batch + 1) * self.batch_size
             inputs_batch == Slice(self.inputs, lo, hi)
             targets_batch == Slice(self.targets, lo, hi)
         IN  [self |-> self,
              out |-> [NoRet EXCEPT !.lo = lo, !.hi = hi,
                                    !.inputs_batch = inputs_batch,
                                    !.targets_batch = targets_batch,
                                    !.batch_inputs = inputs_batch,
                                    !.batch_targets = targets_batch]]

\* DataProvider.next: [self, out], out the outcome in the shape of `ret`
DataProvider_next(self, perm) ==
    IF self.curr_batch + 1 > self.num_batches
    THEN [self |-> new_epoch(self, perm),
          out |-> [NoRet EXCEPT !.exc = "StopIteration"]]
    ELSE LET lo == self.curr_batch * self.batch_size
             hi == (self.curr_batch + 1) * self.batch_size
             inputs_batch == Slice(self.inputs, lo, hi)
             targets_batch == Slice(self.targets, lo, hi)
         IN  [self |-> [self EXCEPT !.curr_batch = self.curr_batch + 1],
              out |-> [NoRet EXCEPT !.lo = lo, !.hi = hi,
                                    !.inputs_batch = inputs_batch,
                                    !.targets_batch = targets_batch,
                                    !.batch_inputs = inputs_batch,
                                    !.batch_targets = targets_batch]]

(***************************************************************************)
(* ASSISTDataProvider.                                                     *)
(***************************************************************************)
\* x.reshape(d1, d2, d3) of a flat array: defined when the sizes agree
CanReshape3(flat, d1, d2, d3) == Len(flat) = d1 * d2 * d3

Reshape3(flat, d1, d2, d3) ==
    [i \in 1..d1 |-> [j \in 1..d2 |-> [k \in 1..d3 |->
        flat[((i - 1) * d2 + (j - 1)) * d3 + k]]]]

\* a transform that keeps only the first label of every student
transform_batch_first_label(self, inputs_batch, target_ids_batch, targets_batch) ==
    [exc |-> "none",
     batch_inputs |-> Reshape3(Flatten(inputs_batch), self.batch_size,
                               self.max_num_ans, self.encoding_dim),
     batch_targets |->
         [p \in 1..Len(targets_batch) |-> AsFloat32(targets_batch[p][1])],
     batch_target_ids |->
         LET flat == Flatten(target_ids_batch)
         IN  [p \in 1..Len(flat) |-> AsInt32(flat[p])]]

\* ASSISTDataProvider.transform_batch: [exc, batch_inputs, batch_target_ids,
\* batch_targets]
transform_batch(self, inputs_batch, target_ids_batch, targets_batch) ==
    LET dense == Flatten(inputs_batch)
    IN  IF ~CanReshape3(dense, self.batch_size, self.max_num_ans, self.encoding_dim)
        THEN [exc |-> "ValueError", batch_inputs |-> << >>,
              batch_target_ids |-> << >>, batch_targets |-> << >>]
        ELSE [exc |-> "none",
              batch_inputs |-> Reshape3(dense, self.batch_size,
                                        self.max_num_ans, self.encoding_dim),
              batch_targets |->
                  LET flat == Flatten(targets_batch)
                  IN  [p \in 1..Len(flat) |-> AsFloat32(flat[p])],
              batch_target_ids |->
                  LET flat == Flatten(target_ids_batch)
                  IN  [p \in 1..Len(flat) |-> AsInt32(flat[p])]]

\* ASSISTDataProvider.next: [self, out]
ASSISTDataProvider_next(self, perm) ==
    IF self.curr_batch + 1 > self.num_batches
    THEN [self |-> new_epoch(self, perm),
          out |-> [NoRet EXCEPT !.exc = "StopIteration"]]
    ELSE LET lo == self.curr_batch * self.batch_size
             hi == (self.curr_batch + 1) * self.batch_size
             inputs_batch == Slice(self.inputs, lo, hi)
             targets_batch == Slice(self.targets, lo, hi)
             target_ids_batch == Slice(self.target_ids, lo, hi)
             t == transform_batch(self, inputs_batch, target_ids_batch,
                                  targets_batch)
         IN  [self |-> [self EXCEPT !.curr_batch = self.curr_batch + 1],
              out |-> [NoRet EXCEPT !.exc = t.exc, !.lo = lo, !.hi = hi,
                                    !.inputs_batch = inputs_batch,
                                    !.targets_batch = targets_batch,
                                    !.target_ids_batch = target_ids_batch,
                                    !.batch_inputs = t.batch_inputs,
                                    !.batch_targets = t.batch_targets,
                                    !.batch_target_ids = t.batch_target_ids]]

\* self.next(): the method of the object's class
next(self, perm) ==
    IF self.cls = "ASSISTDataProvider"
    THEN ASSISTDataProvider_next(self, perm)
    ELSE DataProvider_next(self, perm)

\* ASSISTDataProvider._validate_inputs (the data files exist)
validate_inputs_ok(which_set, which_year) ==
    which_set \in {"train", "test"} /\ which_year \in {"09", "15"}

\* ASSISTDataProvider.__init__ with data=None, fraction=1 and
\* use_compressed_sensing=False, on n rows loaded from disk: [exc, self]
ASSISTDataProvider_init(n, which_set, batch_size, max_num_batches, shuffle_order, perm) ==
    IF ~validate_inputs_ok(which_set, "09")
    THEN [exc |-> "AssertionError", self |-> Blank]
    ELSE LET s == [Blank EXCEPT !.cls = "ASSISTDataProvider",
                                !.which_set = which_set,
                                !.max_num_ans = Loaded_max_num_ans,
                                !.max_prob_set_id = Loaded_max_prob_set_id,
                                !.encoding_dim = Loaded_encoding_dim,
                                !.target_ids = LoadedTargetIds(n)]
         IN  DataProvider_init(s, LoadedInputs(n), LoadedTargets(n), batch_size,
                               max_num_batches, shuffle_order, perm)

\* the values rng.permutation draws when a new epoch of `self` shuffles
Draws(shuffles, n) == IF shuffles THEN Permutations0(n) ELSE {<< >>}

(***************************************************************************)
(* The sequence truncator.                                                 *)
(***************************************************************************)
Zeros(n) == [k \in 1..n |-> 0]

\* a chunk with a non-zero entry (non_empty_mask)
NonEmpty(chunk) == \E c \in 1..Len(chunk) : chunk[c] # 0

\* the indices of the TRUE entries among entries lo..hi of a mask,
\* ascending, by halves
RECURSIVE NonZeroRange(_, _, _)
NonZeroRange(mask, lo, hi) ==
    IF lo > hi THEN << >>
    ELSE IF lo = hi THEN (IF mask[lo] THEN <<lo - 1>> ELSE << >>)
    ELSE LET mid == (lo + hi) \div 2
         IN  NonZeroRange(mask, lo, mid) \o NonZeroRange(mask, mid + 1, hi)

\* the indices of a mask's TRUE entries from entry g on, ascending
\* (np.nonzero)
NonZeroFrom(mask, g) == NonZeroRange(mask, g, Len(mask))

\* pad_size of _truncate_inputs_or_ids
pad_size(self, threshold) == threshold - (self.max_num_ans % threshold)

\* the number of chunks x.reshape(-1, threshold, final_dim) cuts a padded
\* row into
chunks_per_row(self, threshold) ==
    (self.max_num_ans + pad_size(self, threshold)) \div threshold

\* np.pad(x, ((0, 0), (0, pad_size), (0, 0))): every row followed by `pad`
pad_rows(x, pad) == [r \in 1..Len(x) |-> x[r] \o pad]

\* x.reshape(-1, threshold, final_dim) of the padded rows: chunk g is the
\* g-th run of `width` entries, per_row of them in every row
reshape_chunks(padded, per_row, width) ==
    [g \in 1..(Len(padded) * per_row) |->
        SubSeq(padded[((g - 1) \div per_row) + 1],
               ((g - 1) % per_row) * width + 1,
               (((g - 1) % per_row) + 1) * width)]

\* non_empty_mask: for every chunk, whether it has a non-zero entry
non_empty_mask(new_x) == [g \in 1..Len(new_x) |-> NonEmpty(new_x[g])]

\* new_x[non_empty_indices], reshaped to num_effective_students rows:
\* [exc, rows, src]; reshape(0, -1) raises
keep_chunks(new_x, non_empty_indices, per_row, first) ==
    IF Len(non_empty_indices) = 0
    THEN [exc |-> "ValueError", rows |-> << >>, src |-> << >>]
    ELSE [exc |-> "none",
          rows |-> Take(new_x, non_empty_indices),
          src |-> [j \in 1..Len(non_empty_indices) |->
                     <<first + (non_empty_indices[j] \div per_row),
                       non_empty_indices[j] % per_row>>]]

\* the part of the loop body after the chunks new_x are cut
truncate_chunks(new_x, per_row, first) ==
    keep_chunks(new_x, NonZeroFrom(non_empty_mask(new_x), 1), per_row, first)

\* one pass of the loop of _truncate_inputs_or_ids over the rows x, whose
\* first row is row `first` of the whole array: [exc, rows, src]; src names,
\* for every row kept, the student and the chunk it was cut from
truncate_block(self, x, first, final_dim, threshold) ==
    IF \E r \in 1..Len(x) : Len(x[r]) # self.max_num_ans * final_dim
    THEN [exc |-> "ValueError", rows |-> << >>, src |-> << >>]
    ELSE truncate_chunks(
             reshape_chunks(
                 pad_rows(x, Zeros(pad_size(self, threshold) * final_dim)),
                 chunks_per_row(self, threshold), threshold * final_dim),
             chunks_per_row(self, threshold), first)

\* the loop of _truncate_inputs_or_ids from row i on, with sp.vstack of the
\* blocks: [exc, rows, src]
RECURSIVE truncate_from(_, _, _, _, _)
truncate_from(self, input_or_id, i, final_dim, threshold) ==
    IF i >= Len(input_or_id)
    THEN [exc |-> "none", rows |-> << >>, src |-> << >>]
    ELSE LET b == truncate_block(self,
                                 Slice(input_or_id, i, i + TruncateBlockRows),
                                 i, final_dim, threshold)
             rest == truncate_from(self, input_or_id, i + TruncateBlockRows,
                                   final_dim, threshold)
         IN  IF b.exc # "none" THEN b
             ELSE IF rest.exc # "none" THEN rest
             ELSE [exc |-> "none", rows |-> b.rows \o rest.rows,
                   src |-> b.src \o rest.src]

\* ASSISTDataProvider._truncate_inputs_or_ids: [exc, rows, src]; sp.vstack
\* of no block at all raises
truncate_inputs_or_ids(self, input_or_id, final_dim, threshold) ==
    IF Len(input_or_id) = 0
    THEN [exc |-> "ValueError", rows |-> << >>, src |-> << >>]
    ELSE truncate_from(self, input_or_id, 0, final_dim, threshold)

\* a truncation of targets that slices every student over the padded length
truncate_targets_padded(targets, threshold) ==
    Flatten([s \in 1..Len(targets) |->
                LET starts == PyRange(0, Loaded_max_num_ans, threshold)
                IN  [c \in 1..Len(starts) |->
                        Slice(targets[s], starts[c], starts[c] + threshold)]])

\* ASSISTDataProvider._truncate_targets
truncate_targets(targets, threshold) ==
    Flatten([s \in 1..Len(targets) |->
                LET starts == PyRange(0, Len(targets[s]), threshold)
                IN  [c \in 1..Len(starts) |->
                        Slice(targets[s], starts[c], starts[c] + threshold)]])

\* ASSISTDataProvider.truncate_sequences: what it returns or raises
truncate_sequences(self, inputs, target_ids, targets, threshold) ==
    LET th == Min(self.max_num_ans, threshold)
        new_inputs == truncate_inputs_or_ids(self, inputs, self.encoding_dim, th)
        new_ids == truncate_inputs_or_ids(self, target_ids,
                                          self.max_prob_set_id, th)
    IN  IF new_inputs.exc # "none"
        THEN [NoTruncated EXCEPT !.exc = new_inputs.exc]
        ELSE IF new_ids.exc # "none"
        THEN [NoTruncated EXCEPT !.exc = new_ids.exc]
        ELSE [exc |-> "none", threshold |-> th,
              inputs |-> new_inputs.rows, target_ids |-> new_ids.rows,
              targets |-> truncate_targets(targets, th),
              inputs_src |-> new_inputs.src, target_ids_src |-> new_ids.src]

(***************************************************************************)
(* The dimensionality compressor.  An attribute the code assigns only on   *)
(* this path (compress_matrix, compress_dim) is a field the object has     *)
(* only after the assignment.                                              *)
(***************************************************************************)
\* the input block of student r in the plus-minus encoding: +1 or -1 at the
\* answer's problem for the first cnt answer positions
PlusMinusBlock(r, cnt, dim) ==
    [c \in 1..(Loaded_max_num_ans * dim) |->
        LET a == (c - 1) \div dim
            d == (c - 1) % dim
        IN  IF a < cnt /\ d = (r + a) % dim
            THEN (IF (r + a + 1) % 2 = 1 THEN 1 ELSE -1)
            ELSE 0]

\* the file -inputs-plus-minus.npz
LoadedInputsPlusMinus(n) ==
    [k \in 1..n |-> PlusMinusBlock(k - 1, AnsCount(k - 1),
                                   Loaded_max_prob_set_id + 1)]

\* the matrix randn(rows, cols) returns at its draw-th possible outcome
randn(draw, rows, cols) ==
    [i \in 1..rows |-> [j \in 1..cols |-> ((draw * i + j) % 3) - 1]]

\* sum over i >= k of vec[i] * matrix[i][j]
RECURSIVE DotFrom(_, _, _, _)
DotFrom(vec, matrix, j, k) ==
    IF k > Len(vec) THEN 0
    ELSE vec[k] * matrix[k][j] + DotFrom(vec, matrix, j, k + 1)

\* np.dot of a [rows, d] array with a [d, cols] matrix
dot(x, matrix) ==
    [r \in 1..Len(x) |->
        [j \in 1..Len(matrix[1]) |-> DotFrom(x[r], matrix, j, 1)]]

\* ASSISTDataProvider.compress_inputs: [exc, self, inputs]; np.dot raises
\* when the matrix has not encoding_dim rows, reshape(0, -1) when there is
\* no student
compress_inputs(self, inputs) ==
    LET num_students == Len(inputs)
        flat == Rows(Flatten(inputs), self.encoding_dim)
    IN  IF Len(self.compress_matrix) # self.encoding_dim
        THEN [exc |-> "ValueError", self |-> self, inputs |-> << >>]
        ELSE IF num_students = 0
        THEN [exc |-> "ValueError",
              self |-> [self EXCEPT !.encoding_dim = self.compress_dim],
              inputs |-> << >>]
        ELSE [exc |-> "none",
              self |-> [self EXCEPT !.encoding_dim = self.compress_dim],
              inputs |-> Rows(Flatten(dot(flat, self.compress_matrix)),
                              (Len(flat) \div num_students) * self.compress_dim)]

\* ASSISTDataProvider.make_compression_matrix: [self, files, compress_matrix]
make_compression_matrix(self, files, draw) ==
    CHOOSE out \in
        {[self |-> [compress_dim |-> CompressDim] @@ self,
          files |-> [files EXCEPT ![self.which_year] =
                        [exists |-> TRUE, compress_matrix |-> compress_matrix]],
          compress_matrix |-> compress_matrix] :
           compress_matrix \in {randn(draw, self.encoding_dim, CompressDim)}} :
        TRUE

\* a compressor that makes a matrix at test time when none was saved
apply_compressed_sensing_with_fallback(self, inputs, files, draw) ==
    IF self.which_set = "test" /\ files[self.which_year].exists
    THEN LET m == files[self.which_year].compress_matrix
             s == [compress_matrix |-> m, compress_dim |-> Len(m[1])] @@ self
             c == compress_inputs(s, inputs)
         IN  [files |-> files] @@ c
    ELSE LET made == make_compression_matrix(self, files, draw)
             s == [compress_matrix |-> made.compress_matrix] @@ made.self
             c == compress_inputs(s, inputs)
         IN  [files |-> made.files] @@ c

\* ASSISTDataProvider.apply_compressed_sensing: [exc, self, inputs, files];
\* np.load raises when the file does not exist
apply_compressed_sensing(self, inputs, files, draw) ==
    IF self.which_set = "test"
    THEN IF ~files[self.which_year].exists
         THEN [exc |-> "FileNotFoundError", self |-> self, inputs |-> << >>,
               files |-> files]
         ELSE LET m == files[self.which_year].compress_matrix
                  s == [compress_matrix |-> m,
                        compress_dim |-> Len(m[1])] @@ self
                  c == compress_inputs(s, inputs)
              IN  [files |-> files] @@ c
    ELSE LET made == make_compression_matrix(self, files, draw)
             s == [compress_matrix |-> made.compress_matrix] @@ made.self
             c == compress_inputs(s, inputs)
         IN  [files |-> made.files] @@ c

\* ASSISTDataProvider.load_data on a dataset of n rows: [self, inputs,
\* targets]
load_data(self, n, use_plus_minus_feats) ==
    LET s == [self EXCEPT !.max_num_ans = Loaded_max_num_ans,
                          !.max_prob_set_id = Loaded_max_prob_set_id,
                          !.target_ids = LoadedTargetIds(n)]
    IN  IF use_plus_minus_feats
        THEN [self |-> [s EXCEPT !.encoding_dim = s.max_prob_set_id + 1],
              inputs |-> LoadedInputsPlusMinus(n),
              targets |-> LoadedTargets(n)]
        ELSE [self |-> [s EXCEPT !.encoding_dim = 2 * s.max_prob_set_id + 1],
              inputs |-> LoadedInputs(n),
              targets |-> LoadedTargets(n)]

\* ASSISTDataProvider.__init__ with data=None, fraction=1, batch_size=1 and
\* max_num_batches=-1 on a dataset of n rows: [exc, self, files]
ASSISTDataProvider_init_with_options(n, which_set, which_year, use_plus_minus_feats, use_compressed_sensing, shuffle_order, files, draw, perm) ==
    IF ~validate_inputs_ok(which_set, which_year)
    THEN [exc |-> "AssertionError", self |-> Blank, files |-> files]
    ELSE LET s0 == [which_year |-> which_year,
                    use_plus_minus_feats |-> use_plus_minus_feats,
                    use_compressed_sensing |-> use_compressed_sensing]
                   @@ [Blank EXCEPT !.cls = "ASSISTDataProvider",
                                    !.which_set = which_set]
             l == load_data(s0, n, use_plus_minus_feats)
         IN  IF ~use_compressed_sensing
             THEN LET r == DataProvider_init(l.self, l.inputs, l.targets, 1,
                                             -1, shuffle_order, perm)
                  IN  [exc |-> r.exc, self |-> r.self, files |-> files]
             ELSE CHOOSE out \in
                     {IF c.exc # "none"
                      THEN [exc |-> c.exc, self |-> c.self, files |-> c.files]
                      ELSE [files |-> c.files]
                           @@ DataProvider_init(c.self, c.inputs, l.targets,
                                                1, -1, shuffle_order, perm) :
                        c \in {apply_compressed_sensing(l.self, l.inputs,
                                                        files, draw)}} : TRUE

(***************************************************************************)
(* The k-fold splitter.                                                    *)
(***************************************************************************)
\* self.shuffle() indexes targets or target_ids past their last row
shuffle_raises(self, perm) ==
    \E j \in 1..Len(perm) :
        \/ perm[j] >= Len(self.targets)
        \/ perm[j] >= Len(self.target_ids)

\* ASSISTDataProvider.__init__ with a `data` dict: [exc, self]
ASSISTDataProvider_init_with_data(which_set, batch_size, max_num_batches, shuffle_order, data, perm) ==
    IF ~validate_inputs_ok(which_set, "09")
    THEN [exc |-> "AssertionError", self |-> Blank]
    ELSE LET s == [Blank EXCEPT !.cls = "ASSISTDataProvider",
                                !.which_set = which_set,
                                !.max_num_ans = data.max_num_ans,
                                !.max_prob_set_id = data.max_prob_set_id,
                                !.encoding_dim = data.encoding_dim,
                                !.target_ids = data.target_ids,
                                !.inputs = data.inputs,
                                !.targets = data.targets]
         IN  IF ~batch_size_invalid(batch_size)
                /\ ~max_num_batches_invalid(max_num_batches)
                /\ shuffle_order /\ shuffle_raises(s, perm)
             THEN [exc |-> "IndexError", self |-> s]
             ELSE DataProvider_init(s, data.inputs, data.targets, batch_size,
                                    max_num_batches, shuffle_order, perm)

\* KFold(n_splits=k), without shuffling: the number of rows of fold i
\* (0-based); the first n % k folds have one row more
fold_size(n, k, i) == (n \div k) + (IF i < n % k THEN 1 ELSE 0)

\* a split whose folds all start at multiples of n // k
fold_start_without_remainder(n, k, i) == i * (n \div k)

\* the first row of fold i: the sizes of the folds before it
fold_start(n, k, i) == i * (n \div k) + Min(i, n % k)

\* KFold.split: the validation rows of fold i
KFold_val_index(n, k, i) ==
    PyRange(fold_start(n, k, i), fold_start(n, k, i) + fold_size(n, k, i), 1)

\* a split that trains every fold on all the rows
KFold_train_index_all_rows(n, k, i) == PyRange(0, n, 1)

\* KFold.split: the training rows of fold i, ascending
KFold_train_index(n, k, i) ==
    LET lo == fold_start(n, k, i)
        hi == lo + fold_size(n, k, i)
    IN  PyRange(0, Min(lo, n), 1) \o PyRange(Min(hi, n), n, 1)

\* a dict that keeps the originating provider's max_num_ans
fold_data_with_original_max_num_ans(self, inputs, targets, target_ids, threshold) ==
    [inputs |-> inputs, targets |-> targets, target_ids |-> target_ids,
     max_num_ans |-> self.max_num_ans,
     max_prob_set_id |-> self.max_prob_set_id,
     encoding_dim |-> self.encoding_dim]

\* one of the two `data` dicts of the loop body
fold_data(self, inputs, targets, target_ids, threshold) ==
    [inputs |-> inputs, targets |-> targets, target_ids |-> target_ids,
     max_num_ans |-> threshold,
     max_prob_set_id |-> self.max_prob_set_id,
     encoding_dim |-> self.encoding_dim]

\* the body of the loop of _get_k_folds for fold g.i, up to the two dicts:
\* [exc, threshold, truncated, train_index, val_index, train_data, val_data]
get_k_folds_body(self, g) ==
    LET n == Len(g.inputs)
        train_index == KFold_train_index(n, g.k, g.i)
        val_index == KFold_val_index(n, g.k, g.i)
        inputs_train == Take(g.inputs, train_index)
        inputs_val == Take(g.inputs, val_index)
        targets_train == Take(g.targets, train_index)
        targets_val == Take(g.targets, val_index)
        target_ids_train == Take(g.target_ids, train_index)
        targets_ids_val == Take(g.target_ids, val_index)
        raised(exc) ==
            [exc |-> exc, threshold |-> g.threshold, truncated |-> TRUE,
             train_index |-> train_index, val_index |-> val_index,
             train_data |-> NoData, val_data |-> NoData]
    IN  IF g.threshold # 0
        THEN LET t == truncate_sequences(self, inputs_train, target_ids_train,
                                         targets_train, g.threshold)
             IN  IF t.exc # "none" THEN raised(t.exc)
                 ELSE LET v == truncate_sequences(self, inputs_val,
                                                  targets_ids_val, targets_val,
                                                  t.threshold)
                      IN  IF v.exc # "none" THEN raised(v.exc)
                          ELSE [exc |-> "none", threshold |-> v.threshold,
                                truncated |-> TRUE,
                                train_index |-> train_index,
                                val_index |-> val_index,
                                train_data |->
                                    fold_data(self, t.inputs, t.targets,
                                              t.target_ids, v.threshold),
                                val_data |->
                                    fold_data(self, v.inputs, v.targets,
                                              v.target_ids, v.threshold)]
        ELSE [exc |-> "none", threshold |-> self.max_num_ans,
              truncated |-> FALSE,
              train_index |-> train_index, val_index |-> val_index,
              train_data |-> fold_data(self, inputs_train, targets_train,
                                       target_ids_train, self.max_num_ans),
              val_data |-> fold_data(self, inputs_val, targets_val,
                                     targets_ids_val, self.max_num_ans)]

\* an entry that does not assert which_set
get_k_folds_entry_exc_without_assert(self, k) ==
    IF k < 2 THEN "ValueError"
    ELSE IF k > num_rows(self) THEN "ValueError"
    ELSE "none"

\* the exception the code before the loop raises, if any: the assertion on
\* which_set, KFold(n_splits=k) for k < 2, kf.split for k > n
get_k_folds_entry_exc(self, k) ==
    IF self.which_set # "train" THEN "AssertionError"
    ELSE IF k < 2 THEN "ValueError"
    ELSE IF k > num_rows(self) THEN "ValueError"
    ELSE "none"

(***************************************************************************)
(* The calls a client makes on one provider.                               *)
(***************************************************************************)
BatchSizeArgs == 0..MaxBatchSize
MaxNumBatchesArgs == -2..MaxCap
WhichSetArgs == {"train", "valid"}

\* the epoch record a call starts from: after an end-of-epoch signal the
\* next call opens a new one
CurEpoch == IF epoch.ended THEN NewEpoch ELSE epoch

Disturbed == [clean |-> FALSE, ended |-> FALSE, served |-> << >>]

Init ==
    /\ pc = "new"
    /\ dp = Blank
    /\ ret = NoRet
    /\ epoch = NewEpoch
    /\ tr = NoTruncation
    /\ gen = NoGen
    /\ pair = NoPair
    /\ disk = NoFiles
    /\ twin = NoTwin

\* DataProvider(inputs, targets, batch_size, max_num_batches, shuffle_order)
ConstructDataProvider ==
    /\ pc = "new"
    /\ \E n \in 0..MaxRows, bs \in BatchSizeArgs, mnb \in MaxNumBatchesArgs,
          so \in BOOLEAN :
         \E perm \in Draws(so, n) :
            \E r \in {DataProvider_init([Blank EXCEPT !.cls = "DataProvider"],
                                       LoadedInputs(n), LoadedTargets(n),
                                       bs, mnb, so, perm)} :
                /\ pc' = IF r.exc = "none" THEN "ready" ELSE "raised"
                /\ dp' = IF r.exc = "none" THEN r.self ELSE Blank
                /\ ret' = [NoRet EXCEPT !.op = "init", !.exc = r.exc,
                                        !.arg = <<bs, mnb>>]
                /\ epoch' = NewEpoch
    /\ UNCHANGED <<tr, gen, pair, disk, twin>>

\* ASSISTDataProvider(data_dir, which_set, batch_size=..., ...)
ConstructASSISTDataProvider ==
    /\ pc = "new"
    /\ \E n \in 0..MaxRows, ws \in WhichSetArgs, bs \in BatchSizeArgs,
          mnb \in MaxNumBatchesArgs, so \in BOOLEAN :
         \E perm \in Draws(so, n) :
            \E r \in {ASSISTDataProvider_init(n, ws, bs, mnb, so, perm)} :
                /\ pc' = IF r.exc = "none" THEN "ready" ELSE "raised"
                /\ dp' = IF r.exc = "none" THEN r.self ELSE Blank
                /\ ret' = [NoRet EXCEPT !.op = "init", !.exc = r.exc,
                                        !.arg = <<bs, mnb>>]
                /\ epoch' = NewEpoch
    /\ UNCHANGED <<tr, gen, pair, disk, twin>>

\* provider.next()
CallNext ==
    /\ pc = "ready"
    /\ \E perm \in Draws(dp.shuffle_order, num_rows(dp)) :
         \E r \in {next(dp, perm)} :
             /\ dp' = r.self
             /\ ret' = [r.out EXCEPT
                           !.op = "next",
                           !.after_stop = (ret.op = "next"
                                           /\ ret.exc = "StopIteration"),
                           !.after_assign =
                               (/\ ret.op \in {"set_batch_size",
                                               "set_max_num_batches"}
                                /\ ret.exc = "none"
                                /\ dp.curr_batch > 0)]
             /\ epoch' = IF r.out.exc = "StopIteration"
                         THEN [CurEpoch EXCEPT !.ended = TRUE]
                         ELSE IF ~CurEpoch.clean THEN CurEpoch
                         ELSE [CurEpoch EXCEPT !.served =
                                  Append(@, [lo |-> r.out.lo, hi |-> r.out.hi,
                                             inputs |-> r.out.inputs_batch,
                                             targets |-> r.out.targets_batch,
                                             target_ids |-> r.out.target_ids_batch])]
    /\ pc' = pc
    /\ UNCHANGED <<tr, gen, pair, disk, twin>>

\* provider.shuffle()
CallShuffle ==
    /\ pc = "ready"
    /\ \E perm \in Permutations0(num_rows(dp)) :
         /\ dp' = shuffle(dp, perm)
         /\ ret' = [NoRet EXCEPT !.op = "shuffle"]
    /\ epoch' = Disturbed
    /\ pc' = pc
    /\ UNCHANGED <<tr, gen, pair, disk, twin>>

\* provider.reset()
CallReset ==
    /\ pc = "ready"
    /\ \E perm \in Draws(dp.shuffle_order, num_rows(dp)) :
         /\ dp' = reset(dp, perm)
         /\ ret' = [NoRet EXCEPT !.op = "reset", !.arg = perm,
                                 !.disordered =
                                     (dp.current_order # arange(num_rows(dp)))]
    /\ epoch' = NewEpoch
    /\ pc' = pc
    /\ UNCHANGED <<tr, gen, pair, disk, twin>>

\* provider.batch_size = value
AssignBatchSize ==
    /\ pc = "ready"
    /\ \E value \in BatchSizeArgs :
         \E r \in {set_batch_size(dp, value)} :
             /\ dp' = r.self
             /\ ret' = [NoRet EXCEPT !.op = "set_batch_size", !.exc = r.exc,
                                     !.arg = value]
             /\ epoch' = IF r.exc = "none" THEN Disturbed ELSE CurEpoch
    /\ pc' = pc
    /\ UNCHANGED <<tr, gen, pair, disk, twin>>

\* provider.max_num_batches = value
AssignMaxNumBatches ==
    /\ pc = "ready"
    /\ \E value \in MaxNumBatchesArgs :
         \E r \in {set_max_num_batches(dp, value)} :
             /\ dp' = r.self
             /\ ret' = [NoRet EXCEPT !.op = "set_max_num_batches",
                                     !.exc = r.exc, !.arg = value]
             /\ epoch' = IF r.exc = "none" THEN Disturbed ELSE CurEpoch
    /\ pc' = pc
    /\ UNCHANGED <<tr, gen, pair, disk, twin>>

Next ==
    \/ ConstructDataProvider
    \/ ConstructASSISTDataProvider
    \/ CallNext
    \/ CallShuffle
    \/ CallReset
    \/ AssignBatchSize
    \/ AssignMaxNumBatches

Spec == Init /\ [][Next]_vars

(***************************************************************************)
(* truncate_sequences as a function of its arguments (specification        *)
(* SpecTrunc): a train provider with the loaded dimensions is handed       *)
(* right-padded arrays.  Student k has lin[k] encoded answers in inputs,   *)
(* lid[k] identified answers in target_ids, and one label per identified   *)
(* answer in targets.                                                      *)
(***************************************************************************)
TruncSelf ==
    [Blank EXCEPT !.cls = "ASSISTDataProvider", !.which_set = "train",
                  !.batch_size = 1, !.max_num_batches = -1,
                  !.max_num_ans = Loaded_max_num_ans,
                  !.max_prob_set_id = Loaded_max_prob_set_id,
                  !.encoding_dim = Loaded_encoding_dim]

InitTrunc ==
    /\ pc = "ready"
    /\ dp = TruncSelf
    /\ ret = NoRet
    /\ epoch = NewEpoch
    /\ gen = NoGen
    /\ pair = NoPair
    /\ disk = NoFiles
    /\ twin = NoTwin
    /\ \E n \in 0..MaxTruncStudents, threshold \in 1..MaxThreshold :
         \E lin \in [1..n -> 0..Loaded_max_num_ans],
            lid \in [1..n -> 0..Loaded_max_num_ans] :
            tr = [NoTruncation EXCEPT
                     !.state = "called",
                     !.threshold = threshold,
                     !.inputs = [k \in 1..n |->
                         OneHotBlock(k - 1, lin[k], Loaded_encoding_dim)],
                     !.target_ids = [k \in 1..n |->
                         OneHotBlock(k - 1, lid[k], Loaded_max_prob_set_id)],
                     !.targets = [k \in 1..n |-> Labels(k - 1, lid[k])]]

\* self.truncate_sequences(inputs, target_ids, targets, threshold)
CallTruncateSequences ==
    /\ tr.state = "called"
    /\ \E out \in {truncate_sequences(dp, tr.inputs, tr.target_ids,
                                        tr.targets, tr.threshold)} :
         tr' = [tr EXCEPT !.state = IF out.exc = "none" THEN "returned"
                                    ELSE "raised",
                          !.out = out]
    /\ UNCHANGED <<pc, dp, ret, epoch, gen, pair, disk, twin>>

NextTrunc == CallTruncateSequences

SpecTrunc == InitTrunc /\ [][NextTrunc]_vars

(***************************************************************************)
(* The fold generator of a provider loaded from disk (specification        *)
(* SpecFold): a client calls _get_k_folds and resumes the generator until  *)
(* it is exhausted or raises.                                              *)
(***************************************************************************)
\* a call on a fold provider that also rewinds the originating provider
call_on_fold_provider_rewinding_origin(origin, train_dp, val_dp, which, method, perm) ==
    LET after(p) == IF method = "shuffle" THEN shuffle(p, perm)
                                          ELSE reset(p, perm)
    IN  [origin |-> [origin EXCEPT !.curr_batch = 0],
         train_dp |-> IF which = "train" THEN after(train_dp) ELSE train_dp,
         val_dp |-> IF which = "val" THEN after(val_dp) ELSE val_dp]

\* train_dp.shuffle(), train_dp.reset(), val_dp.shuffle() or val_dp.reset()
\* on a yielded pair: the three objects after the call.  The arrays of a
\* fold provider are the copies inputs[train_index], ... (or the arrays
\* the truncator built), and shuffle and reset assign attributes of the
\* object they are called on only.
call_on_fold_provider(origin, train_dp, val_dp, which, method, perm) ==
    LET after(p) == IF method = "shuffle" THEN shuffle(p, perm)
                                          ELSE reset(p, perm)
    IN  [origin |-> origin,
         train_dp |-> IF which = "train" THEN after(train_dp) ELSE train_dp,
         val_dp |-> IF which = "val" THEN after(val_dp) ELSE val_dp]

FoldSetArgs == {"train", "test"}
KArgs == 1..MaxK
\* no threshold, one that cuts the longest sequences in two, and one above
\* max_num_ans
ThresholdArgs == {0, Loaded_max_num_ans - 1, Loaded_max_num_ans + 1}

InitFold ==
    /\ pc = "ready"
    /\ ret = NoRet
    /\ epoch = NewEpoch
    /\ tr = NoTruncation
    /\ gen = NoGen
    /\ pair = NoPair
    /\ disk = NoFiles
    /\ twin = NoTwin
    /\ \E n \in 0..MaxFoldRows, ws \in FoldSetArgs, bs \in 1..MaxBatchSize,
          so \in BOOLEAN :
         \E perm \in Draws(so, n) :
            \E new \in {ASSISTDataProvider_init(n, ws, bs, -1, so, perm).self} :
               \* next() has returned `served` batches since
               \E served \in 0..Min(MaxServed, new.num_batches) :
                  dp = [new EXCEPT !.curr_batch = served]

\* folds = provider._get_k_folds(k, threshold): no line of the body runs
CallGetKFolds ==
    /\ pc = "ready"
    /\ gen.state = "none"
    /\ \E k \in KArgs, threshold \in ThresholdArgs :
         gen' = [NoGen EXCEPT !.state = "created", !.k = k,
                              !.threshold = threshold,
                              !.threshold_arg = threshold]
    /\ UNCHANGED <<pc, dp, ret, epoch, tr, pair, disk, twin>>

\* next(folds) on a generator that has not started: the code before the loop
\* raises
ResumeRaisesAtEntry ==
    /\ gen.state = "created"
    /\ get_k_folds_entry_exc(dp, gen.k) # "none"
    /\ gen' = [gen EXCEPT !.state = "raised",
                          !.exc = get_k_folds_entry_exc(dp, gen.k)]
    /\ UNCHANGED <<pc, dp, ret, epoch, tr, pair, disk, twin>>

\* the generator's frame when next(folds) reaches the head of the loop: a
\* generator that has not started first binds inputs, targets, target_ids
GenAtLoop ==
    IF gen.state = "created"
    THEN [gen EXCEPT !.inputs = dp.inputs, !.targets = dp.targets,
                     !.target_ids = dp.target_ids]
    ELSE gen

\* next(folds): kf.split has no fold left
ResumeExhausted ==
    /\ gen.state = "suspended"
    /\ gen.i = gen.k
    /\ gen' = [gen EXCEPT !.state = "done", !.exc = "StopIteration"]
    /\ UNCHANGED <<pc, dp, ret, epoch, tr, pair, disk, twin>>

\* one pass of the loop body of _get_k_folds in the frame g, up to the
\* exception the body raises or to the yield, which leaves the generator in
\* the state `after`
RunLoopBody(g, after) ==
    \E b \in {get_k_folds_body(dp, g)} :
        IF b.exc # "none"
        THEN /\ gen' = [g EXCEPT !.state = "raised", !.exc = b.exc]
             /\ pair' = pair
        ELSE \E pt \in Draws(dp.shuffle_order, Len(b.train_data.inputs)),
                pv \in Draws(dp.shuffle_order, Len(b.val_data.inputs)) :
                \E t \in {ASSISTDataProvider_init_with_data(
                              dp.which_set, dp.batch_size, dp.max_num_batches,
                              dp.shuffle_order, b.train_data, pt)} :
                   IF t.exc # "none"
                   THEN /\ gen' = [g EXCEPT !.state = "raised",
                                            !.exc = t.exc,
                                            !.threshold = b.threshold]
                        /\ pair' = pair
                   ELSE \E v \in {ASSISTDataProvider_init_with_data(
                                     dp.which_set, dp.batch_size,
                                     dp.max_num_batches, dp.shuffle_order,
                                     b.val_data, pv)} :
                           IF v.exc # "none"
                           THEN /\ gen' = [g EXCEPT
                                              !.state = "raised",
                                              !.exc = v.exc,
                                              !.threshold = b.threshold]
                                /\ pair' = pair
                           ELSE /\ gen' = [g EXCEPT
                                              !.state = after,
                                              !.threshold = b.threshold,
                                              !.i = @ + 1,
                                              !.splits = Append(@,
                                                 [train_index |-> b.train_index,
                                                  val_index |-> b.val_index])]
                                /\ pair' = [train_data |-> b.train_data,
                                            val_data |-> b.val_data,
                                            truncated |-> b.truncated,
                                            train_dp |-> t.self,
                                            val_dp |-> v.self]

\* next(folds): one pass of the loop body, up to the yield or to the
\* exception the body raises
ResumeFold ==
    /\ \/ gen.state = "created" /\ get_k_folds_entry_exc(dp, gen.k) = "none"
       \/ gen.state = "suspended" /\ gen.i < gen.k
    /\ RunLoopBody(GenAtLoop, "suspended")
    /\ UNCHANGED <<pc, dp, ret, epoch, tr, disk, twin>>

\* no threshold, and one above max_num_ans
SplitThresholdArgs == {0, Loaded_max_num_ans + 1}

\* provider.train_validation_split(threshold): the first next() of
\* _get_k_folds(5, threshold), then break; the generator is dropped with its
\* frame at the yield
CallTrainValidationSplit ==
    /\ pc = "ready"
    /\ gen.state = "none"
    /\ \E threshold \in SplitThresholdArgs :
         \E g \in {[NoGen EXCEPT !.state = "created", !.k = SplitFolds,
                                 !.threshold = threshold,
                                 !.threshold_arg = threshold,
                                 !.inputs = dp.inputs,
                                 !.targets = dp.targets,
                                 !.target_ids = dp.target_ids]} :
            IF get_k_folds_entry_exc(dp, SplitFolds) # "none"
            THEN /\ gen' = [NoGen EXCEPT
                              !.state = "raised", !.k = SplitFolds,
                              !.threshold = threshold,
                              !.threshold_arg = threshold,
                              !.exc = get_k_folds_entry_exc(dp, SplitFolds)]
                 /\ pair' = pair
            ELSE RunLoopBody(g, "closed")
    /\ ret' = [NoRet EXCEPT !.op = "train_validation_split",
                            !.exc = gen'.exc]
    /\ UNCHANGED <<pc, dp, epoch, tr, disk, twin>>

\* train_dp.shuffle(), train_dp.reset(), val_dp.shuffle() or val_dp.reset()
\* on the pair the caller holds
CallOnFoldProvider ==
    /\ pc = "ready"
    /\ pair.train_dp.cls = "ASSISTDataProvider"
    /\ \E which \in {"train", "val"}, method \in {"shuffle", "reset"} :
         \E called \in {IF which = "train" THEN pair.train_dp
                                            ELSE pair.val_dp} :
            \E perm \in (IF method = "shuffle"
                         THEN Permutations0(num_rows(called))
                         ELSE Draws(called.shuffle_order, num_rows(called))) :
               \E r \in {call_on_fold_provider(dp, pair.train_dp, pair.val_dp,
                                               which, method, perm)} :
                  /\ dp' = r.origin
                  /\ pair' = [pair EXCEPT !.train_dp = r.train_dp,
                                          !.val_dp = r.val_dp]
    /\ UNCHANGED <<pc, ret, epoch, tr, gen, disk, twin>>

NextFold ==
    \/ CallGetKFolds
    \/ ResumeRaisesAtEntry
    \/ ResumeExhausted
    \/ ResumeFold
    \/ CallTrainValidationSplit
    \/ CallOnFoldProvider

SpecFold == InitFold /\ [][NextFold]_vars

(***************************************************************************)
(* Constructions that share one data directory (specification              *)
(* SpecCompress): each one loads a dataset of some year and split, with or *)
(* without compression, and replaces the object the client holds.          *)
(***************************************************************************)
InitCompress ==
    /\ pc = "new"
    /\ dp = Blank
    /\ ret = NoRet
    /\ epoch = NewEpoch
    /\ tr = NoTruncation
    /\ gen = NoGen
    /\ pair = NoPair
    /\ disk = NoFiles
    /\ twin = NoTwin

\* the outcomes of the generator that a construction can observe: randn is
\* called only when a train provider compresses
MatrixDraws(which_set, use_compressed_sensing) ==
    IF use_compressed_sensing /\ which_set = "train"
    THEN 1..MaxMatrixDraws ELSE {1}

\* ASSISTDataProvider(data_dir, which_set, which_year,
\* use_plus_minus_feats=..., use_compressed_sensing=..., batch_size=1,
\* shuffle_order=...)
ConstructWithOptions ==
    /\ \E n \in 0..MaxCompressedRows, ws \in FoldSetArgs, y \in Years,
          pm \in BOOLEAN, cs \in BOOLEAN, so \in BOOLEAN :
         \E draw \in MatrixDraws(ws, cs), perm \in Draws(so, n) :
            \E r \in {ASSISTDataProvider_init_with_options(
                          n, ws, y, pm, cs, so, disk, draw, perm)} :
                /\ pc' = IF r.exc = "none" THEN "ready" ELSE "raised"
                /\ dp' = IF r.exc = "none" THEN r.self ELSE Blank
                /\ ret' = [NoRet EXCEPT !.op = "init", !.exc = r.exc,
                                        !.arg = [which_set |-> ws,
                                                 which_year |-> y,
                                                 use_plus_minus_feats |-> pm,
                                                 use_compressed_sensing |-> cs]]
                /\ disk' = r.files
    /\ epoch' = NewEpoch
    /\ UNCHANGED <<tr, gen, pair, twin>>

NextCompress == ConstructWithOptions

SpecCompress == InitCompress /\ [][NextCompress]_vars

(***************************************************************************)
(* train_validation_split on a provider loaded from disk (specification    *)
(* SpecSplit).                                                             *)
(***************************************************************************)
InitSplit ==
    /\ pc = "ready"
    /\ ret = NoRet
    /\ epoch = NewEpoch
    /\ tr = NoTruncation
    /\ gen = NoGen
    /\ pair = NoPair
    /\ disk = NoFiles
    /\ twin = NoTwin
    /\ \E n \in 0..MaxSplitRows, ws \in FoldSetArgs,
          bs \in {1, MaxBatchSize}, so \in BOOLEAN :
         \E perm \in Draws(so, n) :
            dp = ASSISTDataProvider_init(n, ws, bs, -1, so, perm).self

NextSplit == CallTrainValidationSplit

SpecSplit == InitSplit /\ [][NextSplit]_vars

(***************************************************************************)
(* _truncate_inputs_or_ids over more rows than one pass of its loop takes  *)
(* (specification SpecBlocks): a train provider with the loaded dimensions *)
(* holds `head` students, none or one full block of them, followed by at   *)
(* most MaxTailRows more.  Student k of the head has pat[k % 2] encoded    *)
(* answers, student j of the tail has cnt[j].                              *)
(***************************************************************************)
\* the answers of student k (0-based) of such a dataset
BlockAnswers(head, pat, cnt, k) == IF k < head THEN pat[k % 2] ELSE cnt[k - head + 1]

\* the rows of such a dataset, each of max_num_ans positions of dim entries
BlockRows(head, pat, cnt, dim) ==
    [r \in 1..(head + Len(cnt)) |->
        OneHotBlock(r - 1, BlockAnswers(head, pat, cnt, r - 1), dim)]

InitBlocks ==
    /\ pc = "ready"
    /\ dp = TruncSelf
    /\ ret = NoRet
    /\ epoch = NewEpoch
    /\ gen = NoGen
    /\ pair = NoPair
    /\ disk = NoFiles
    /\ twin = NoTwin
    /\ \E head \in {0, TruncateBlockRows}, tail \in 0..MaxTailRows,
          threshold \in 1..Min(MaxThreshold, Loaded_max_num_ans) :
         \E pat \in [0..1 -> IF head = 0 THEN {0}
                                         ELSE 0..Loaded_max_num_ans],
            cnt \in [1..tail -> 0..Loaded_max_num_ans] :
            tr = [NoTruncation EXCEPT
                     !.state = "called",
                     !.threshold = threshold,
                     !.inputs = BlockRows(head, pat, cnt, Loaded_encoding_dim),
                     !.target_ids = BlockRows(head, pat, cnt,
                                              Loaded_max_prob_set_id)]

\* self._truncate_inputs_or_ids(inputs, self.encoding_dim, threshold) or
\* self._truncate_inputs_or_ids(target_ids, self.max_prob_set_id, threshold)
CallTruncateInputsOrIds ==
    /\ tr.state = "called"
    /\ \E which \in {"inputs", "target_ids"} :
         \E out \in {IF which = "inputs"
                     THEN truncate_inputs_or_ids(dp, tr.inputs,
                                                 dp.encoding_dim, tr.threshold)
                     ELSE truncate_inputs_or_ids(dp, tr.target_ids,
                                                 dp.max_prob_set_id,
                                                 tr.threshold)} :
            /\ tr' = [tr EXCEPT
                         !.state = IF out.exc = "none" THEN "returned"
                                   ELSE "raised",
                         !.out = IF which = "inputs"
                                 THEN [NoTruncated EXCEPT
                                          !.exc = out.exc,
                                          !.threshold = tr.threshold,
                                          !.inputs = out.rows,
                                          !.inputs_src = out.src]
                                 ELSE [NoTruncated EXCEPT
                                          !.exc = out.exc,
                                          !.threshold = tr.threshold,
                                          !.target_ids = out.rows,
                                          !.target_ids_src = out.src]]
            /\ ret' = [NoRet EXCEPT !.op = "_truncate_inputs_or_ids",
                                    !.exc = out.exc, !.arg = which]
    /\ UNCHANGED <<pc, dp, epoch, gen, pair, disk, twin>>

NextBlocks == CallTruncateInputsOrIds

SpecBlocks == InitBlocks /\ [][NextBlocks]_vars

(***************************************************************************)
(* Two providers side by side (specification SpecTwin): both are           *)
(* constructed with the same arguments over the same dataset, the          *)
(* generators they are given (or the RandomState(DEFAULT_SEED) each        *)
(* creates for itself) being in the same state, and every call is made on  *)
(* the first and then on the second.  What a generator returns is not      *)
(* known, but it is a function of the generator's state: two generators in *)
(* the same state return the same value.                                   *)
(***************************************************************************)
\* new_epoch calls self.shuffle(), which draws a permutation
new_epoch_draws(self) == self.shuffle_order

\* next() reaches new_epoch
next_draws(self) ==
    self.curr_batch + 1 > self.num_batches /\ new_epoch_draws(self)

\* a generator whose values do not depend on its state
unseeded_permutation(ahead, first_draws, drawn, n) == Permutations0(n)

\* the values rng.permutation(n) of the second provider can return, when
\* its generator has drawn `ahead` values more than the first provider's
\* and the first provider's call drew `drawn` (if first_draws)
same_seed_permutation(ahead, first_draws, drawn, n) ==
    IF ahead = 0 /\ first_draws /\ Len(drawn) = n
    THEN {drawn} ELSE Permutations0(n)

\* the matrices randn of the second constructor can return, when the first
\* constructor's randn returned matrix `draw`: rng.randn of two generators
\* in the same state, np.random.randn when no generator was passed
second_randn(rng_given, draw) ==
    IF rng_given THEN {draw} ELSE 1..MaxMatrixDraws

\* the generator states after the two calls
ahead_after(ahead, first_draws, second_draws) ==
    ahead + (IF second_draws THEN 1 ELSE 0) - (IF first_draws THEN 1 ELSE 0)

InitTwin ==
    /\ pc = "new"
    /\ dp = Blank
    /\ ret = NoRet
    /\ epoch = NewEpoch
    /\ tr = NoTruncation
    /\ gen = NoGen
    /\ pair = NoPair
    /\ disk = NoFiles
    /\ twin = NoTwin

\* the two constructions have returned a and b ([exc, self])
BothConstructed(a, b, args, ambient) ==
    /\ pc' = IF a.exc = "none" /\ b.exc = "none" THEN "ready" ELSE "raised"
    /\ dp' = IF a.exc = "none" THEN a.self ELSE Blank
    /\ ret' = [NoRet EXCEPT !.op = "init", !.exc = a.exc, !.arg = args]
    /\ twin' = [dp |-> IF b.exc = "none" THEN b.self ELSE Blank,
                ret |-> [NoRet EXCEPT !.op = "init", !.exc = b.exc,
                                      !.arg = args],
                ahead |-> 0,
                ambient |-> ambient]

\* DataProvider(inputs, targets, batch_size, max_num_batches, shuffle_order),
\* twice
ConstructBothDataProvider ==
    /\ pc = "new"
    /\ \E n \in 0..MaxRows, bs \in BatchSizeArgs, mnb \in MaxNumBatchesArgs,
          so \in BOOLEAN :
         \E perm \in Draws(so, n) :
            \E perm2 \in (IF so THEN same_seed_permutation(0, so, perm, n)
                                 ELSE {<< >>}) :
               BothConstructed(
                   DataProvider_init([Blank EXCEPT !.cls = "DataProvider"],
                                     LoadedInputs(n), LoadedTargets(n),
                                     bs, mnb, so, perm),
                   DataProvider_init([Blank EXCEPT !.cls = "DataProvider"],
                                     LoadedInputs(n), LoadedTargets(n),
                                     bs, mnb, so, perm2),
                   <<bs, mnb>>, FALSE)
    /\ UNCHANGED <<epoch, tr, gen, pair, disk>>

\* ASSISTDataProvider(data_dir, which_set, batch_size=..., ...), twice
ConstructBothASSISTDataProvider ==
    /\ pc = "new"
    /\ \E n \in 0..MaxRows, ws \in WhichSetArgs, bs \in BatchSizeArgs,
          mnb \in MaxNumBatchesArgs, so \in BOOLEAN :
         \E perm \in Draws(so, n) :
            \E perm2 \in (IF so THEN same_seed_permutation(0, so, perm, n)
                                 ELSE {<< >>}) :
               BothConstructed(
                   ASSISTDataProvider_init(n, ws, bs, mnb, so, perm),
                   ASSISTDataProvider_init(n, ws, bs, mnb, so, perm2),
                   <<bs, mnb>>, FALSE)
    /\ UNCHANGED <<epoch, tr, gen, pair, disk>>

\* ASSISTDataProvider(data_dir, 'train', use_compressed_sensing=True,
\* batch_size=1, shuffle_order=..., rng=...), twice: with rng=None each
\* constructor takes its matrix from np.random.randn
ConstructBothCompressed ==
    /\ pc = "new"
    /\ \E n \in 0..MaxCompressedRows, y \in Years, so \in BOOLEAN,
          rng_given \in BOOLEAN :
         \E draw \in 1..MaxMatrixDraws, perm \in Draws(so, n) :
            \E draw2 \in second_randn(rng_given, draw),
               perm2 \in (IF so THEN same_seed_permutation(0, so, perm, n)
                                ELSE {<< >>}) :
               \E a \in {ASSISTDataProvider_init_with_options(
                             n, "train", y, FALSE, TRUE, so, disk, draw,
                             perm)} :
                  \E b \in {ASSISTDataProvider_init_with_options(
                                n, "train", y, FALSE, TRUE, so, a.files,
                                draw2, perm2)} :
                     /\ BothConstructed(a, b, <<1, -1>>, ~rng_given)
                     /\ disk' = b.files
    /\ UNCHANGED <<epoch, tr, gen, pair>>

\* the method `name` called on self with the argument `value` (of a setter)
\* and the permutation its shuffle draws: [self, out]
call(self, name, value, perm) ==
    CASE name = "next" -> next(self, perm)
      [] name = "shuffle" -> [self |-> shuffle(self, perm), out |-> NoRet]
      [] name = "reset" -> [self |-> reset(self, perm), out |-> NoRet]
      [] name = "set_batch_size" ->
            LET r == set_batch_size(self, value)
            IN  [self |-> r.self, out |-> [NoRet EXCEPT !.exc = r.exc]]
      [] name = "set_max_num_batches" ->
            LET r == set_max_num_batches(self, value)
            IN  [self |-> r.self, out |-> [NoRet EXCEPT !.exc = r.exc]]

\* the method `name` called on self draws a permutation
call_draws(self, name) ==
    CASE name = "next" -> next_draws(self)
      [] name = "shuffle" -> TRUE
      [] name = "reset" -> new_epoch_draws(self)
      [] OTHER -> FALSE

\* one method called on the first provider and then on the second
CallBoth(name, value) ==
    \E perm \in (IF call_draws(dp, name) THEN Permutations0(num_rows(dp))
                                         ELSE {<< >>}) :
       \E perm2 \in (IF call_draws(twin.dp, name)
                     THEN same_seed_permutation(twin.ahead,
                                                call_draws(dp, name), perm,
                                                num_rows(twin.dp))
                     ELSE {<< >>}) :
          \E a \in {call(dp, name, value, perm)} :
             \E b \in {call(twin.dp, name, value, perm2)} :
                /\ dp' = a.self
                /\ ret' = [a.out EXCEPT !.op = name, !.arg = value]
                /\ twin' = [twin EXCEPT
                               !.dp = b.self,
                               !.ret = [b.out EXCEPT !.op = name,
                                                     !.arg = value],
                               !.ahead = ahead_after(@, call_draws(dp, name),
                                                     call_draws(twin.dp, name))]

\* next() on both
NextBoth ==
    /\ pc = "ready"
    /\ CallBoth("next", 0)
    /\ UNCHANGED <<pc, epoch, tr, gen, pair, disk>>

\* shuffle() on both
ShuffleBoth ==
    /\ pc = "ready"
    /\ CallBoth("shuffle", 0)
    /\ UNCHANGED <<pc, epoch, tr, gen, pair, disk>>

\* reset() on both
ResetBoth ==
    /\ pc = "ready"
    /\ CallBoth("reset", 0)
    /\ UNCHANGED <<pc, epoch, tr, gen, pair, disk>>

\* batch_size = value on both
AssignBatchSizeBoth ==
    /\ pc = "ready"
    /\ \E value \in BatchSizeArgs : CallBoth("set_batch_size", value)
    /\ UNCHANGED <<pc, epoch, tr, gen, pair, disk>>

\* max_num_batches = value on both
AssignMaxNumBatchesBoth ==
    /\ pc = "ready"
    /\ \E value \in MaxNumBatchesArgs :
         CallBoth("set_max_num_batches", value)
    /\ UNCHANGED <<pc, epoch, tr, gen, pair, disk>>

NextTwin ==
    \/ ConstructBothDataProvider
    \/ ConstructBothASSISTDataProvider
    \/ ConstructBothCompressed
    \/ NextBoth
    \/ ShuffleBoth
    \/ ResetBoth
    \/ AssignBatchSizeBoth
    \/ AssignMaxNumBatchesBoth

SpecTwin == InitTwin /\ [][NextTwin]_vars

(***************************************************************************)
(* Properties of the batch iterator (specification Spec).                  *)
(***************************************************************************)
IsASSIST == dp.cls = "ASSISTDataProvider"

\* floor(n / d) for d >= 1, by its defining inequalities
FloorDiv(n, d) == CHOOSE q \in 0..n : q * d <= n /\ n < (q + 1) * d

\* C1: in every state of a constructed provider num_batches is
\* floor(num_rows / batch_size) when max_num_batches is -1 and
\* min(max_num_batches, floor(num_rows / batch_size)) otherwise.
C1_NumBatches ==
    pc = "ready" =>
        LET possible == FloorDiv(num_rows(dp), dp.batch_size)
        IN  /\ dp.batch_size >= 1
            /\ dp.max_num_batches = -1 => dp.num_batches = possible
            /\ dp.max_num_batches # -1 =>
                 /\ dp.num_batches <= dp.max_num_batches
                 /\ dp.num_batches <= possible
                 /\ dp.num_batches \in {dp.max_num_batches, possible}

\* C1 witness: an assignment to batch_size in the middle of an epoch changed
\* the number of batches the data splits into, under a cap that does not bind
C1_Witness ==
    /\ pc = "ready"
    /\ ret.op = "set_batch_size" /\ ret.exc = "none"
    /\ dp.curr_batch > 0
    /\ dp.batch_size = 2 /\ dp.num_batches = 1
    /\ dp.max_num_batches = 2

\* the row indices a served batch covers
Covered(b) == {i \in 0..(num_rows(dp) - 1) : b.lo <= i /\ i < b.hi}

\* C2: within one undisturbed epoch the i-th batch is rows
\* [i*batch_size, (i+1)*batch_size) of the current order, the batches are
\* pairwise disjoint, no row at index >= num_batches*batch_size is emitted,
\* and at the end-of-epoch signal exactly num_batches*batch_size rows are
\* covered.
C2_EpochBatches ==
    (pc = "ready" /\ epoch.clean) =>
        LET served == epoch.served
            bs == dp.batch_size
        IN  /\ \A i \in 1..Len(served) :
                 /\ Covered(served[i]) = {r \in 0..(num_rows(dp) - 1) :
                                            (i - 1) * bs <= r /\ r < i * bs}
                 /\ Cardinality(Covered(served[i])) = bs
                 /\ Len(served[i].inputs) = bs
                 /\ Len(served[i].targets) = bs
                 /\ ~epoch.ended =>
                      \A j \in 1..bs :
                         /\ served[i].inputs[j] = dp.inputs[(i - 1) * bs + j]
                         /\ served[i].targets[j] = dp.targets[(i - 1) * bs + j]
                         /\ IsASSIST => served[i].target_ids[j]
                                          = dp.target_ids[(i - 1) * bs + j]
            /\ \A i, j \in 1..Len(served) :
                 i # j => Covered(served[i]) \cap Covered(served[j]) = {}
            /\ \A i \in 1..Len(served) :
                 \A r \in Covered(served[i]) : r < dp.num_batches * bs
            /\ epoch.ended =>
                 UNION {Covered(served[i]) : i \in 1..Len(served)}
                    = 0..(dp.num_batches * bs - 1)

\* C2 witness: an undisturbed epoch ended after two batches
C2_Witness ==
    /\ pc = "ready"
    /\ epoch.clean /\ epoch.ended
    /\ Len(epoch.served) = 2

\* the batch next() returned is rows [0, batch_size) of the order after it
FirstBatchReturned ==
    /\ ret'.exc = "none"
    /\ ret'.lo = 0 /\ ret'.hi = dp'.batch_size
    /\ dp'.curr_batch = 1
    /\ Len(ret'.inputs_batch) = dp'.batch_size
    /\ \A j \in 1..dp'.batch_size :
         /\ ret'.inputs_batch[j] = dp'.inputs[j]
         /\ ret'.targets_batch[j] = dp'.targets[j]

\* C3 as stated: for every batch_size and row count, the next() after the
\* end-of-epoch signal returns the first batch of the new epoch.
C3_AsStated ==
    [][(ret'.op = "next" /\ ret.op = "next" /\ ret.exc = "StopIteration")
          => FirstBatchReturned]_vars

\* C3 amended: when num_batches >= 1, once num_batches batches have been
\* returned in an epoch the next next() signals end-of-epoch and puts the
\* cursor at 0, and the next() right after the signal returns rows
\* [0, batch_size) of the new order without signalling; when num_batches = 0
\* every next() signals end-of-epoch.
C3_EndOfEpochOnce ==
    [][(pc = "ready" /\ ret'.op = "next") =>
          /\ (CurEpoch.clean /\ Len(CurEpoch.served) = dp.num_batches) =>
                (ret'.exc = "StopIteration" /\ dp'.curr_batch = 0)
          /\ (ret.op = "next" /\ ret.exc = "StopIteration"
                /\ dp.num_batches >= 1) => FirstBatchReturned
          /\ dp.num_batches = 0 => ret'.exc = "StopIteration"]_vars

\* C3 witness: a whole epoch of two batches was served, the end of the epoch
\* was signalled, and the call after the signal returned a batch
C3_Witness ==
    /\ pc = "ready"
    /\ ret.op = "next" /\ ret.after_stop /\ ret.exc = "none"
    /\ dp.num_batches = 2 /\ dp.curr_batch = 1

\* the rows are the loaded dataset in its original order
InOriginalOrder(self) ==
    /\ self.inputs = LoadedInputs(num_rows(self))
    /\ self.targets = LoadedTargets(num_rows(self))
    /\ self.cls = "ASSISTDataProvider" =>
           self.target_ids = LoadedTargetIds(num_rows(self))

\* C4 as stated: for every provider, shuffle() and then reset() leaves
\* inputs, targets and target_ids in their original order.
C4_AsStated ==
    [][(ret.op = "shuffle" /\ ret'.op = "reset") => InOriginalOrder(dp')]_vars

\* C4 amended: for every provider with shuffle_order false, reset() after any
\* number of shuffle() calls leaves inputs, targets and target_ids
\* row-for-row in their original order and _current_order the identity; with
\* shuffle_order true reset() re-shuffles, so the rows are left in a freshly
\* drawn permutation of the original order.
C4_ResetRestores ==
    (pc = "ready" /\ ret.op = "reset") =>
        /\ ~dp.shuffle_order =>
             (InOriginalOrder(dp) /\ dp.current_order = arange(num_rows(dp)))
        /\ dp.shuffle_order =>
             \E p \in Permutations0(num_rows(dp)) :
                /\ dp.current_order = p
                /\ dp.inputs = Take(LoadedInputs(num_rows(dp)), p)
                /\ dp.targets = Take(LoadedTargets(num_rows(dp)), p)

\* C4 witness: reset() found the rows shuffled and put them back
C4_Witness ==
    /\ pc = "ready"
    /\ ret.op = "reset" /\ ret.disordered
    /\ ~dp.shuffle_order
    /\ num_rows(dp) = 2
    /\ dp.current_order = <<0, 1>>

\* C5: in every state of an ASSISTDataProvider _current_order is a
\* permutation of 0..num_rows-1 and row i of inputs, targets and target_ids
\* is the data of original row _current_order[i].
C5_RowAlignment ==
    (pc = "ready" /\ IsASSIST) =>
        LET n == num_rows(dp)
        IN  /\ Len(dp.current_order) = n
            /\ Len(dp.targets) = n
            /\ Len(dp.target_ids) = n
            /\ {dp.current_order[i] : i \in 1..n} = 0..(n - 1)
            /\ \A i \in 1..n :
                 /\ dp.inputs[i] = LoadedInputs(n)[dp.current_order[i] + 1]
                 /\ dp.targets[i] = LoadedTargets(n)[dp.current_order[i] + 1]
                 /\ dp.target_ids[i] = LoadedTargetIds(n)[dp.current_order[i] + 1]

\* C5 witness: an epoch rollover left an ASSISTDataProvider's rows swapped
C5_Witness ==
    /\ pc = "ready" /\ IsASSIST
    /\ ret.op = "next" /\ ret.exc = "StopIteration"
    /\ dp.current_order = <<1, 0>>

\* C6: construction raises ValueError exactly when batch_size < 1 or
\* max_num_batches is 0 or below -1, and then no provider exists; assigning
\* such a value to batch_size or max_num_batches raises ValueError and leaves
\* every attribute of the provider (batch_size, max_num_batches,
\* num_batches, the cursor, the data) unchanged.
C6_InvalidArguments ==
    [][/\ (ret'.op = "init" /\ ret'.exc # "AssertionError") =>
            /\ ret'.exc = "ValueError" <=>
                  (ret'.arg[1] < 1 \/ ret'.arg[2] = 0 \/ ret'.arg[2] < -1)
            /\ ret'.exc = "ValueError" => pc' = "raised"
            /\ ret'.exc = "none" => pc' = "ready"
       /\ ret'.op = "set_batch_size" =>
            /\ ret'.exc = "ValueError" <=> ret'.arg < 1
            /\ ret'.exc = "ValueError" => dp' = dp
            /\ ret'.exc = "none" => dp'.batch_size = ret'.arg
       /\ ret'.op = "set_max_num_batches" =>
            /\ ret'.exc = "ValueError" <=> (ret'.arg = 0 \/ ret'.arg < -1)
            /\ ret'.exc = "ValueError" => dp' = dp
            /\ ret'.exc = "none" => dp'.max_num_batches = ret'.arg]_vars

\* C6 witness: max_num_batches = -2 was refused in the middle of an epoch
C6_Witness ==
    /\ pc = "ready"
    /\ ret.op = "set_max_num_batches" /\ ret.exc = "ValueError"
    /\ ret.arg = -2
    /\ dp.curr_batch = 1 /\ dp.max_num_batches = 2

RECURSIVE SumLen(_)
SumLen(rows) == IF rows = << >> THEN 0 ELSE Len(Head(rows)) + SumLen(Tail(rows))

\* the rows of the provider the last batch was cut from
BatchRows(arr) == [s \in 1..(ret.hi - ret.lo) |-> arr[ret.lo + s]]

ReturnedASSISTBatch ==
    pc = "ready" /\ IsASSIST /\ ret.op = "next" /\ ret.exc = "none"

ChunkOf(row, c, dim, threshold) ==
    [e \in 1..(threshold * dim) |->
        IF c * threshold * dim + e <= Len(row)
        THEN row[c * threshold * dim + e] ELSE 0]

\* the chunks of a student: those that start within max_num_ans positions
ChunksPerStudent(threshold) ==
    Cardinality({c \in 0..dp.max_num_ans : c * threshold < dp.max_num_ans})

\* the <<student, chunk>> pairs of the call's arguments whose input sub-block
\* or identifier sub-block has a non-zero entry, student by student
RetainedChunks(threshold) ==
    Flatten([s \in 1..Len(tr.inputs) |->
        SelectSeq([c \in 1..ChunksPerStudent(threshold) |-> <<s - 1, c - 1>>],
                  LAMBDA sc :
                     \/ NonEmpty(ChunkOf(tr.inputs[s], sc[2],
                                         dp.encoding_dim, threshold))
                     \/ NonEmpty(ChunkOf(tr.target_ids[s], sc[2],
                                         dp.max_prob_set_id, threshold)))])

\* C10 as stated: truncate_sequences discards a chunk if and only if both its
\* input sub-block and its identifier sub-block are entirely zero; every
\* other chunk is retained in the returned inputs and in the returned
\* target_ids, so row j of both comes from the same student and chunk.
C10_AsStated ==
    tr.state = "returned" =>
        LET th == tr.out.threshold
            kept == RetainedChunks(th)
        IN  /\ tr.out.inputs_src = kept
            /\ tr.out.target_ids_src = kept
            /\ \A j \in 1..Len(kept) :
                  /\ tr.out.inputs[j]
                       = ChunkOf(tr.inputs[kept[j][1] + 1], kept[j][2],
                                 dp.encoding_dim, th)
                  /\ tr.out.target_ids[j]
                       = ChunkOf(tr.target_ids[kept[j][1] + 1], kept[j][2],
                                 dp.max_prob_set_id, th)

(***************************************************************************)
(* Properties of the k-fold splitter (specification SpecFold).             *)
(***************************************************************************)
\* the set of the entries of an index array
IndexSet(idx) == {idx[j] : j \in 1..Len(idx)}

\* an index array that lists consecutive rows in ascending order
Contiguous(idx) ==
    \A j \in 1..(Len(idx) - 1) : idx[j + 1] = idx[j] + 1

\* C8: for a train provider with n >= k rows, in every fold _get_k_folds(k)
\* produces the train and validation row sets are disjoint and their union
\* is all n rows, each validation set is a contiguous block of the
\* provider's current row order, and once the k folds are produced every row
\* is in the validation set of exactly one fold and in the train set of the
\* other k-1 folds.
C8_FoldPartition ==
    LET n == Len(gen.inputs)
        rows == 0..(n - 1)
        val(f) == IndexSet(gen.splits[f].val_index)
        train(f) == IndexSet(gen.splits[f].train_index)
        folds == 1..Len(gen.splits)
    IN  /\ \A f \in folds :
              /\ train(f) \cap val(f) = {}
              /\ train(f) \cup val(f) = rows
              /\ Len(gen.splits[f].val_index) + Len(gen.splits[f].train_index) = n
              /\ Contiguous(gen.splits[f].val_index)
              /\ val(f) # {}
        /\ \A f, g \in folds : f # g => val(f) \cap val(g) = {}
        /\ gen.state = "done" =>
              /\ Len(gen.splits) = gen.k
              /\ \A r \in rows :
                    /\ Cardinality({f \in folds : r \in val(f)}) = 1
                    /\ Cardinality({f \in folds : r \in train(f)}) = gen.k - 1

\* C8 witness: the generator is exhausted after splitting three rows into
\* two folds, the first validated on rows 0 and 1, the second on row 2
C8_Witness ==
    /\ gen.state = "done"
    /\ gen.k = 2
    /\ Len(gen.inputs) = 3
    /\ gen.splits[1].val_index = <<0, 1>> /\ gen.splits[1].train_index = <<2>>
    /\ gen.splits[2].val_index = <<2>> /\ gen.splits[2].train_index = <<0, 1>>

\* C9 as stated: when _get_k_folds is called with no threshold, for every
\* fold it yields the loop body does not call truncate_sequences, the train
\* and validation bundles hold exactly the rows the fold's indices select,
\* in order, and their max_num_ans is the originating provider's.
C9_AsStated ==
    [][(gen.threshold_arg = 0 /\ gen'.state = "suspended") =>
          LET split == gen'.splits[gen'.i]
          IN  /\ ~pair'.truncated
              /\ pair'.train_data.inputs = Take(dp.inputs, split.train_index)
              /\ pair'.train_data.targets = Take(dp.targets, split.train_index)
              /\ pair'.train_data.target_ids
                    = Take(dp.target_ids, split.train_index)
              /\ pair'.val_data.inputs = Take(dp.inputs, split.val_index)
              /\ pair'.val_data.targets = Take(dp.targets, split.val_index)
              /\ pair'.val_data.target_ids
                    = Take(dp.target_ids, split.val_index)
              /\ pair'.train_data.max_num_ans = dp.max_num_ans
              /\ pair'.val_data.max_num_ans = dp.max_num_ans]_vars

\* C11: on a provider whose which_set is not 'train', train_validation_split
\* and the first next() of _get_k_folds raise AssertionError, and no pair of
\* providers is ever yielded or returned.
C11_NonTrainFails ==
    dp.which_set # "train" =>
        /\ gen.state \in {"none", "created", "raised"}
        /\ gen.state = "raised" => gen.exc = "AssertionError"
        /\ ret.op = "train_validation_split" =>
              (gen.state = "raised" /\ ret.exc = "AssertionError")
        /\ gen.splits = << >>
        /\ pair = NoPair

\* C11 witness: a generator asked for two folds of a test provider with
\* three rows raised AssertionError at its first next()
C11_Witness ==
    /\ dp.which_set = "test"
    /\ num_rows(dp) = 3
    /\ gen.k = 2
    /\ ret.op = "none"
    /\ gen.state = "raised" /\ gen.exc = "AssertionError"
    /\ pair = NoPair

(***************************************************************************)
(* Properties of train_validation_split (specification SpecSplit).         *)
(***************************************************************************)
\* ceil(n / d) for d >= 1
CeilDiv(n, d) == (n + d - 1) \div d

\* the provider holds the rows of the bundle it was built from, in the order
\* its _current_order records
BuiltFrom(provider, data) ==
    /\ provider.cls = "ASSISTDataProvider"
    /\ provider.current_order \in Permutations0(Len(data.inputs))
    /\ provider.inputs = Take(data.inputs, provider.current_order)
    /\ provider.targets = Take(data.targets, provider.current_order)
    /\ provider.target_ids = Take(data.target_ids, provider.current_order)

PairBuilt == gen.state \in {"suspended", "done", "closed"}

\* every row of the provider's inputs holds `answers` answer positions, and
\* the first batch next() returns has shape [batch_size, answers,
\* encoding_dim]
RowsHold(provider, answers) ==
    /\ provider.max_num_ans = answers
    /\ \A r \in 1..num_rows(provider) :
          /\ Len(provider.inputs[r]) = answers * provider.encoding_dim
          /\ Len(provider.target_ids[r]) = answers * provider.max_prob_set_id
    /\ provider.num_batches >= 1 =>
          LET batch == next(provider, << >>).out
          IN  /\ batch.exc = "none"
              /\ Len(batch.batch_inputs) = provider.batch_size
              /\ \A i \in 1..Len(batch.batch_inputs) :
                    /\ Len(batch.batch_inputs[i]) = answers
                    /\ \A j \in 1..answers :
                          Len(batch.batch_inputs[i][j]) = dp.encoding_dim

\* C13: when a truncation threshold t is supplied, the effective threshold
\* is min(t, max_num_ans) <= max_num_ans, both providers built for a fold
\* have max_num_ans equal to it, every row of their inputs holds exactly
\* that many answer positions, and a batch reshapes to
\* [batch_size, effective threshold, encoding_dim].
C13_EffectiveThreshold ==
    (PairBuilt /\ gen.threshold_arg # 0) =>
        LET effective == Min(gen.threshold_arg, dp.max_num_ans)
        IN  /\ effective <= dp.max_num_ans
            /\ gen.threshold = effective
            /\ pair.truncated
            /\ pair.train_data.max_num_ans = effective
            /\ pair.val_data.max_num_ans = effective
            /\ RowsHold(pair.train_dp, effective)
            /\ RowsHold(pair.val_dp, effective)

\* C13 witness: with a threshold below max_num_ans a fold was yielded whose
\* train provider holds more rows than the fold selected, each of
\* `threshold` answer positions
C13_Witness ==
    /\ gen.state = "suspended"
    /\ gen.threshold_arg = dp.max_num_ans - 1
    /\ pair.train_dp.max_num_ans = dp.max_num_ans - 1
    /\ num_rows(pair.train_dp) > Len(gen.splits[gen.i].train_index)
    /\ pair.train_dp.num_batches >= 1

(***************************************************************************)
(* Properties of the dimensionality compressor (specification              *)
(* SpecCompress).                                                          *)
(***************************************************************************)
\* the step is a construction with these arguments
Constructs(which_set, use_compressed_sensing) ==
    /\ ret'.op = "init"
    /\ ret'.arg.which_set = which_set
    /\ ret'.arg.use_compressed_sensing = use_compressed_sensing

\* C14: constructing a test provider with compression raises
\* FileNotFoundError when no train construction has saved a matrix, and
\* never saves or makes a matrix; when a matrix is saved, a test provider
\* that is constructed holds exactly the saved matrix, which only a train
\* construction with compression writes.
C14_TestUsesSavedMatrix ==
    [][/\ Constructs("test", TRUE) =>
            /\ disk' = disk
            /\ ~disk[ret'.arg.which_year].exists =>
                  (ret'.exc = "FileNotFoundError" /\ pc' = "raised")
            /\ (disk[ret'.arg.which_year].exists /\ pc' = "ready") =>
                  /\ dp'.compress_matrix
                        = disk[ret'.arg.which_year].compress_matrix
                  /\ dp'.encoding_dim = CompressDim
       /\ disk' # disk =>
            /\ Constructs("train", TRUE)
            /\ disk'[ret'.arg.which_year].exists
            /\ pc' = "ready" =>
                  dp'.compress_matrix
                     = disk'[ret'.arg.which_year].compress_matrix]_vars

\* C14 witness: a test provider was constructed with compression and holds
\* the matrix a train construction saved at its second possible draw
C14_Witness ==
    /\ pc = "ready"
    /\ ret.op = "init"
    /\ ret.arg.which_set = "test" /\ ret.arg.use_compressed_sensing
    /\ disk["09"].exists
    /\ disk["09"].compress_matrix = randn(2, Loaded_encoding_dim, CompressDim)
    /\ dp.compress_matrix = disk["09"].compress_matrix
    /\ num_rows(dp) = 1
    /\ Len(dp.inputs[1]) = dp.max_num_ans * CompressDim

\* the number of rows of src that were cut from student s
ChunksOf(src, s) == Cardinality({j \in 1..Len(src) : src[j][1] = s})

\* the truncated arrays handed to a provider are the truncation of the rows
\* idx selects, and student by student the retained input chunks, the
\* retained identifier chunks and the target slices are equally many
AlignedTruncation(data, idx, threshold) ==
    LET targets == Take(gen.targets, idx)
        t == truncate_sequences(dp, Take(gen.inputs, idx),
                                Take(gen.target_ids, idx), targets, threshold)
    IN  /\ t.exc = "none"
        /\ data.inputs = t.inputs
        /\ data.target_ids = t.target_ids
        /\ data.targets = t.targets
        /\ Len(data.inputs) = Len(data.targets)
        /\ Len(data.target_ids) = Len(data.targets)
        /\ \A s \in 1..Len(idx) :
              /\ ChunksOf(t.inputs_src, s - 1)
                    = CeilDiv(Len(targets[s]), threshold)
              /\ ChunksOf(t.target_ids_src, s - 1)
                    = CeilDiv(Len(targets[s]), threshold)

InOrder(self, p) ==
    /\ self.current_order = p
    /\ self.inputs = Take(LoadedInputs(num_rows(self)), p)
    /\ self.targets = Take(LoadedTargets(num_rows(self)), p)
    /\ self.cls = "ASSISTDataProvider" =>
           self.target_ids = Take(LoadedTargetIds(num_rows(self)), p)

\* C16: reset() called in any state, mid-epoch included, leaves the batch
\* cursor at 0; if shuffle_order is false _current_order is the identity and
\* the data is the original data; if shuffle_order is true _current_order is
\* exactly the permutation reset drew, applied to the original order.
C16_ResetFreshOrder ==
    (pc = "ready" /\ ret.op = "reset") =>
        /\ dp.curr_batch = 0
        /\ ~dp.shuffle_order => InOrder(dp, arange(num_rows(dp)))
        /\ dp.shuffle_order =>
              /\ ret.arg \in Permutations0(num_rows(dp))
              /\ InOrder(dp, ret.arg)

\* C16 witness: reset() of a shuffling provider of two rows found the rows
\* swapped and drew the swap again
C16_Witness ==
    /\ pc = "ready"
    /\ ret.op = "reset" /\ ret.disordered
    /\ dp.shuffle_order
    /\ dp.cls = "ASSISTDataProvider"
    /\ ret.arg = <<1, 0>>
    /\ dp.current_order = <<1, 0>>

\* the arrays and _current_order of `after` are those of `before`,
\* reordered by p
Reordered(before, after, p) ==
    /\ after.current_order = Take(before.current_order, p)
    /\ after.inputs = Take(before.inputs, p)
    /\ after.targets = Take(before.targets, p)
    /\ after.target_ids = IF before.cls = "ASSISTDataProvider"
                             THEN Take(before.target_ids, p)
                             ELSE before.target_ids

\* the arrays and _current_order of the two objects are equal
SameData(before, after) ==
    /\ after.current_order = before.current_order
    /\ after.inputs = before.inputs
    /\ after.targets = before.targets
    /\ after.target_ids = before.target_ids

\* C17: a next() that signals end-of-epoch leaves the cursor at 0 and
\* re-permutes the data if and only if shuffle_order is true; a next() that
\* returns a batch leaves the data order alone.  So with shuffle_order false
\* next() never changes inputs, targets, target_ids or _current_order, and
\* the batch it returns at cursor c is rows
\* [c*batch_size, (c+1)*batch_size) of the same data in every epoch.
C17_NextAndDataOrder ==
    [][(pc = "ready" /\ ret'.op = "next") =>
          /\ ret'.exc \in {"none", "StopIteration"}
          /\ ret'.exc = "StopIteration" =>
                /\ dp'.curr_batch = 0
                /\ dp.shuffle_order =>
                      \E p \in Permutations0(num_rows(dp)) :
                         Reordered(dp, dp', p)
          /\ ret'.exc = "none" =>
                /\ SameData(dp, dp')
                /\ dp'.curr_batch = dp.curr_batch + 1
                /\ ret'.inputs_batch
                      = Slice(dp.inputs, dp.curr_batch * dp.batch_size,
                              (dp.curr_batch + 1) * dp.batch_size)
                /\ ret'.targets_batch
                      = Slice(dp.targets, dp.curr_batch * dp.batch_size,
                              (dp.curr_batch + 1) * dp.batch_size)
          /\ ~dp.shuffle_order => SameData(dp, dp')]_vars

\* C17 witness: a provider that does not shuffle, whose rows an explicit
\* shuffle() had swapped, served a second epoch from the first batch on
C17_Witness ==
    /\ pc = "ready"
    /\ ~dp.shuffle_order
    /\ dp.current_order = <<1, 0>>
    /\ ret.op = "next" /\ ret.after_stop /\ ret.exc = "none"
    /\ dp.curr_batch = 1

\* C18: an accepted assignment to batch_size or to max_num_batches changes
\* that attribute and num_batches and nothing else: the cursor, the arrays
\* and _current_order stay as they were, so no shuffle and no end of epoch
\* is triggered by it.
C18_SettersTouchNothingElse ==
    [][/\ (pc = "ready" /\ ret'.op = "set_batch_size" /\ ret'.exc = "none") =>
            dp' = [dp EXCEPT !.batch_size = ret'.arg,
                             !.num_batches = dp'.num_batches]
       /\ (pc = "ready" /\ ret'.op = "set_max_num_batches"
                        /\ ret'.exc = "none") =>
            dp' = [dp EXCEPT !.max_num_batches = ret'.arg,
                             !.num_batches = dp'.num_batches]]_vars

\* C18 witness: max_num_batches was lowered to 1 in the middle of an epoch,
\* on shuffled data, after one batch of one row had been served
C18_Witness ==
    /\ pc = "ready"
    /\ ret.op = "set_max_num_batches" /\ ret.exc = "none" /\ ret.arg = 1
    /\ dp.max_num_batches = 1 /\ dp.num_batches = 1
    /\ dp.batch_size = 1
    /\ dp.curr_batch = 1
    /\ dp.current_order = <<1, 0>>

\* C19: next() signals end-of-epoch exactly when cursor + 1 > num_batches,
\* and otherwise returns a batch of exactly batch_size rows, the rows
\* [cursor*batch_size, (cursor+1)*batch_size), all of them existing rows
\* of the data; it never returns a short or an empty batch.  This holds
\* also when batch_size or max_num_batches was assigned in the middle of an
\* epoch.
C19_FullBatchesOnly ==
    [][(pc = "ready" /\ ret'.op = "next") =>
          /\ ret'.exc = "StopIteration" <=> dp.curr_batch + 1 > dp.num_batches
          /\ ret'.exc # "StopIteration" =>
                /\ ret'.exc = "none"
                /\ ret'.lo = dp.curr_batch * dp.batch_size
                /\ ret'.hi = ret'.lo + dp.batch_size
                /\ 0 <= ret'.lo /\ ret'.hi <= num_rows(dp)
                /\ Len(ret'.inputs_batch) = dp.batch_size
                /\ Len(ret'.targets_batch) = dp.batch_size
                /\ Len(ret'.batch_inputs) = dp.batch_size
                /\ Len(ret'.inputs_batch) > 0
                /\ dp.cls = "ASSISTDataProvider" =>
                      Len(ret'.target_ids_batch) = dp.batch_size]_vars

\* C19 witness: batch_size or max_num_batches was assigned after the first
\* batch of an epoch, and the next() that followed returned the one-row
\* batch at cursor 1
C19_Witness ==
    /\ pc = "ready"
    /\ ret.op = "next" /\ ret.exc = "none" /\ ret.after_assign
    /\ ret.lo = 1 /\ ret.hi = 2
    /\ Len(ret.inputs_batch) = 1
    /\ dp.batch_size = 1 /\ dp.curr_batch = 2

BlockArg == IF ret.arg = "inputs" THEN tr.inputs ELSE tr.target_ids

BlockDim == IF ret.arg = "inputs" THEN dp.encoding_dim ELSE dp.max_prob_set_id

BlockOut == IF ret.arg = "inputs" THEN tr.out.inputs ELSE tr.out.target_ids

\* for every row the call returned, the student and the chunk it was cut
\* from
BlockSrc == IF ret.arg = "inputs" THEN tr.out.inputs_src
                                  ELSE tr.out.target_ids_src

\* C22 as stated: whatever the number of rows, _truncate_inputs_or_ids
\* returns what one pass over all the rows at once returns, and raises only
\* where the single pass raises too: the rows returned are the chunks with
\* a non-zero entry, every one of them and no other, in student-major,
\* chunk-ascending order, each holding the student's answer positions
\* [c*threshold, (c+1)*threshold) of the zero-padded sequence, as many rows
\* as chunks are retained over all blocks.
C22_AsStated ==
    ret.op = "_truncate_inputs_or_ids" =>
        LET at_once == truncate_block(dp, BlockArg, 0, BlockDim, tr.threshold)
            src == BlockSrc
            retained == {src[j] : j \in 1..Len(src)}
        IN  /\ ret.exc = at_once.exc
            /\ ret.exc = "none" =>
                  /\ BlockOut = at_once.rows
                  /\ Len(BlockOut) = Len(src)
                  /\ \A j \in 1..Len(src) :
                        BlockOut[j] = ChunkOf(BlockArg[src[j][1] + 1],
                                              src[j][2], BlockDim,
                                              tr.threshold)
                  /\ \A j \in 1..(Len(src) - 1) :
                        \/ src[j][1] < src[j + 1][1]
                        \/ /\ src[j][1] = src[j + 1][1]
                           /\ src[j][2] < src[j + 1][2]
                  /\ \A s \in 1..Len(BlockArg) :
                        \A c \in 0..(ChunksPerStudent(tr.threshold) - 1) :
                           NonEmpty(ChunkOf(BlockArg[s], c, BlockDim,
                                            tr.threshold))
                              <=> <<s - 1, c>> \in retained

(***************************************************************************)
(* Properties of two providers side by side (specification SpecTwin).      *)
(***************************************************************************)
\* the last call returned the same batch on both providers, or raised the
\* same exception on both
SameOutcome ==
    /\ twin.ret.exc = ret.exc
    /\ twin.ret.batch_inputs = ret.batch_inputs
    /\ twin.ret.batch_targets = ret.batch_targets
    /\ twin.ret.batch_target_ids = ret.batch_target_ids

====
